---- MODULE Spec2Model ----
(***************************************************************************)
(* Headless Sentinel: the rule engine (analyzer.py, class Watcher) over    *)
(* the log store (database.py), and the collection cycle (collector.py,    *)
(* class LogCollector), with their parts each under a specification of    *)
(* its own: execute_powershell, _parse_event_xml, sanitize_xml, the store  *)
(* under maintenance, get_credentials, _parse_time_range, send_webhook,    *)
(* search_logs, RateLimiter.acquire.                                       *)
(*                                                                         *)
(* Time is counted in minutes: the default check_interval (60 s) and the   *)
(* back-off sleep (60 s) are one unit, the start-up look-back of           *)
(* timedelta(hours=1) is 60 units.                                         *)
(***************************************************************************)
EXTENDS Integers, Sequences, FiniteSets, TLC

VARIABLES
    clock,            \* datetime.utcnow(), in minutes
    store,            \* table logs: sequence of rows in insertion order
    logs_id_seq,      \* next value of the sequence logs_id_seq
    alert_rules,      \* Watcher.alert_rules, read once from the configuration
    last_check,       \* Watcher.last_check
    wpc,              \* position of Watcher.start: "check", "rules", "sleep", "backoff";
                      \* "off" when no watcher runs
    now,              \* the local `now` of the running _check_alerts
    ruleIdx,          \* index of the rule the for-loop of _check_alerts is at
    tick,             \* number of calls of _check_alerts so far
    evalLog,          \* one record per call of _evaluate_rule
    tickLog,          \* one record per finished call of _check_alerts
    notifierCalls,    \* calls of send_webhook, in call order
    dispatchLog,      \* actions reached by the loop of _trigger_alert, in order
    remediationLog,   \* logger.warning lines of _execute_remediation
    remediatorCalls,  \* calls of execute_powershell_remote made by the watcher
    hosts,            \* LogCollector.hosts
    log_names,        \* collection.log_types, read at the start of collect_all
    cpc,              \* position of run_continuous: "idle", "gather", "sleep", "backoff"
    cycle,            \* number of collect_all calls started
    task,             \* per host: state of its collect_from_host coroutine, and what
                      \* the executor gave for each channel it tried
    chanIdx,          \* per host: index of the channel its for-loop is at
    all_entries,      \* per host: the local all_entries of collect_from_host
    all_results,      \* the local all_results of collect_all
    cycleLog,         \* one record per finished collect_all
    session,          \* RemoteHost._session and _protocol: "none" or "set"
    epc,              \* position of execute_powershell: "idle", "entry", "try", "shell",
                      \* "command", "output", "except"
    call,             \* number of execute_powershell calls started
    attempt,          \* the `attempt` of the retry_on_failure wrapper
    slept,            \* seconds the wrapper slept in the running call
    cause,            \* what went wrong in the running call, NoValue when nothing did
    status_code,      \* status_code read by get_command_output
    open_shells,      \* shell ids opened by open_shell and not closed
    open_commands,    \* command ids started by run_command and not cleaned up
    execLog,          \* one record per finished execute_powershell call
    payload,          \* the xml_output handed to _parse_event_xml
    parsed,           \* what _parse_event_xml returned
    ppc,              \* "off", "input", "parsed"
    raw,              \* the string handed to sanitize_xml
    once,             \* sanitize_xml(raw)
    twice,            \* sanitize_xml(sanitize_xml(raw))
    spc,              \* "off", "input", "once", "twice"
    parquet,          \* rows of the Parquet file on disk, <<>> when there is none
    freed,            \* ids of the rows delete_old_logs removed
    insertLog,        \* one record per insert_logs call on the store under test
    txnBatch,         \* rows the running INSERT of insert_logs is to write, <<>> when none runs
    pending,          \* rows the running INSERT has written, not yet committed
    tpc,              \* position of insert_logs next to a reader: "off", "idle", "insert"
    readLog,          \* one record per execute_query of the reader thread
    txnLog,           \* one record per finished insert_logs call next to the reader
    restored,         \* table logs of a second store, created empty, that imports the Parquet file
    rpc,              \* state of the second store: "off", "empty", "imported"
    deleteLog,        \* one record per delete_old_logs call
    conn,             \* per thread: its thread-local connection, "none" or "open"
    bpc,              \* position of create_backup: "off", "idle", "copying"
    backupBy,         \* the thread that runs create_backup, NoValue when none does
    opsLog,           \* inserts and queries run on the store, with the position of the backup
    backups,          \* create_backup calls finished
    interrupt,        \* what the collector was at when the interrupt came, NoValue before
    exit_code,        \* exit status of the collect command, NoValue while it runs
    sources,          \* what each credential source holds for the target
    credentials,      \* what get_credentials gave: a returned dict or a raised error
    kpc,              \* "off", "input", "done"
    targets,          \* the ips of the `targets` of the configuration, in order
    has_creds,        \* per target: whether get_credentials finds credentials for it now
    range_of,         \* number and unit the text for _parse_time_range was written from
    range_text,       \* the text handed to _parse_time_range, a sequence of characters
    hours,            \* what _parse_time_range gave: a returned int or a raised error
    hpc,              \* "off", "input", "done"
    request,          \* arguments of the send_webhook call followed, and what the POST meets
    sent,             \* what send_webhook gave: a bool with the payload posted, or an error
    npc,              \* "off", "input", "done"
    search,           \* arguments of the search_logs call followed
    hits,             \* what search_logs gave: the rows returned, or an error
    qpc,              \* "off", "input", "done"
    lateRows,         \* rows inserted with a timestamp at or before the last_check of that moment
    timestamps,       \* RateLimiter.timestamps
    acquiring,        \* per task: where it is in acquire() ("out", "sleep") and when its sleep ends
    acquired,         \* the instants at which acquire() calls completed, in order
    overlapped,       \* whether a task ever entered acquire() while another was suspended in it
    schema_runs,      \* times initialize_schema ran again on the store under test
    imported          \* whether import_from_parquet has loaded rows into the store under test

watcherVars == <<alert_rules, last_check, wpc, now, ruleIdx, tick, evalLog, tickLog,
                 notifierCalls, dispatchLog, remediationLog, remediatorCalls>>
collectorVars == <<hosts, log_names, cpc, cycle, task, chanIdx, all_entries, all_results, cycleLog>>
storeVars == <<store, logs_id_seq>>
execVars == <<session, epc, call, attempt, slept, cause, status_code, open_shells,
              open_commands, execLog>>
parseVars == <<payload, parsed, ppc>>
sanitizeVars == <<raw, once, twice, spc>>
dbVars == <<parquet, freed, insertLog>>
txnVars == <<txnBatch, pending, tpc, readLog, txnLog>>
restoreVars == <<restored, rpc>>
retentionVars == <<deleteLog>>
backupVars == <<conn, bpc, backupBy, opsLog, backups>>
cancelVars == <<interrupt, exit_code>>
credVars == <<sources, credentials, kpc>>
hostVars == <<targets, has_creds>>
rangeVars == <<range_of, range_text, hours, hpc>>
webhookVars == <<request, sent, npc>>
searchVars == <<search, hits, qpc>>
ingestVars == <<lateRows>>
limiterVars == <<timestamps, acquiring, acquired, overlapped>>
schemaVars == <<schema_runs, imported>>
vars == <<clock, storeVars, watcherVars, collectorVars, execVars, parseVars, sanitizeVars,
          dbVars, txnVars, restoreVars, retentionVars, backupVars, cancelVars, credVars,
          hostVars, rangeVars, webhookVars, searchVars, ingestVars, limiterVars, schemaVars>>

----------------------------------------------------------------------------
(* Bounds of the model and constants of the program *)

MaxElapsed == 2       \* minutes of wall-clock time explored after start-up
MaxRows == 2          \* rows the store may hold
MaxTicks == 2         \* calls of _check_alerts explored
Threshold == 2        \* threshold of the failed-login rule (5 in the sample config)
MaxCycles == 2        \* calls of collect_all explored
MaxCalls == 3         \* calls of execute_powershell explored
ConcurrentHosts == 2  \* collection.concurrent_hosts of the configuration, W

Hour == 60            \* timedelta(hours=1)
CheckInterval == 1    \* alerts.check_interval, default 60 s
Backoff == 1          \* asyncio.sleep(60) after a tick that raised

StartTime == Hour + 1
MaxClock == StartTime + MaxElapsed

NoValue == "none"     \* a key that is absent (dict.get gives None) or empty

----------------------------------------------------------------------------
(* The components a specification leaves at rest *)

\* No RemoteHost.execute_powershell call is followed.
ExecOff ==
    /\ session = "none" /\ epc = "off" /\ call = 0 /\ attempt = 0 /\ slept = 0
    /\ cause = NoValue /\ status_code = 0 /\ open_shells = {} /\ open_commands = {}
    /\ execLog = <<>>

\* No _parse_event_xml call is followed.
ParseOff == payload = <<>> /\ parsed = <<>> /\ ppc = "off"

\* No sanitize_xml call is followed.
SanitizeOff == raw = <<>> /\ once = <<>> /\ twice = <<>> /\ spc = "off"

\* No Parquet file, no delete, no insert_logs call on record.
DbOff == parquet = <<>> /\ freed = {} /\ insertLog = <<>>

\* No insert_logs call is followed next to a reader.
TxnOff == txnBatch = <<>> /\ pending = <<>> /\ tpc = "off" /\ readLog = <<>> /\ txnLog = <<>>

\* No second store imports the Parquet file.
RestoreOff == restored = <<>> /\ rpc = "off"

\* No delete_old_logs call on record.
RetentionOff == deleteLog = <<>>

\* No create_backup call is followed.
BackupOff == conn = <<>> /\ bpc = "off" /\ backupBy = NoValue /\ opsLog = <<>> /\ backups = 0

\* No interrupt has come and the command has not exited.
CancelOff == interrupt = NoValue /\ exit_code = NoValue

\* No get_credentials call is followed.
CredOff == sources = NoValue /\ credentials = NoValue /\ kpc = "off"

\* The credentials of the targets are not followed.
HostsOff == targets = <<>> /\ has_creds = <<>>

\* No _parse_time_range call is followed.
RangeOff == range_of = NoValue /\ range_text = <<>> /\ hours = NoValue /\ hpc = "off"

\* No single send_webhook call is followed.
WebhookOff == request = NoValue /\ sent = NoValue /\ npc = "off"

\* No search_logs call is followed.
SearchOff == search = NoValue /\ hits = NoValue /\ qpc = "off"

\* No row the watcher reads came late.
IngestOff == lateRows = {}

\* No RateLimiter is followed.
LimiterOff == timestamps = <<>> /\ acquiring = <<>> /\ acquired = <<>> /\ overlapped = FALSE

\* The schema was created once and nothing was imported.
SchemaOff == schema_runs = 0 /\ imported = FALSE

\* The watcher at rest: no rules, no tick under way, nothing logged.
WatcherOff ==
    /\ alert_rules = <<>>
    /\ last_check = clock - Hour
    /\ wpc = "off"
    /\ now = clock
    /\ ruleIdx = 1
    /\ tick = 0
    /\ evalLog = <<>>
    /\ tickLog = <<>>
    /\ notifierCalls = <<>>
    /\ dispatchLog = <<>>
    /\ remediationLog = <<>>
    /\ remediatorCalls = <<>>

\* The collector at rest: no hosts, no cycle under way.
CollectorOff ==
    /\ hosts = <<>>
    /\ log_names = <<>>
    /\ cpc = "idle"
    /\ cycle = 0
    /\ task = <<>>
    /\ chanIdx = <<>>
    /\ all_entries = <<>>
    /\ all_results = <<>>
    /\ cycleLog = <<>>

----------------------------------------------------------------------------
(* Generic helpers *)

RECURSIVE SeqOfSet(_)
SeqOfSet(S) == IF S = {} THEN <<>>
               ELSE LET x == CHOOSE y \in S : TRUE IN <<x>> \o SeqOfSet(S \ {x})

Range(s) == {s[i] : i \in DOMAIN s}

Orderings(S) == {s \in [1..Cardinality(S) -> S] : Range(s) = S}

Min(S) == CHOOSE x \in S : \A y \in S : x <= y

RECURSIVE Flatten(_)
Flatten(ss) == IF ss = <<>> THEN <<>> ELSE Head(ss) \o Flatten(Tail(ss))

----------------------------------------------------------------------------
(* The store: table logs and sequence logs_id_seq (database.py) *)

\* One row of table logs for a LogEntry e that received id `id`.
LogRow(id, e) ==
    [id |-> id, timestamp |-> e.timestamp, computer |-> e.computer,
     log_name |-> e.log_name, event_id |-> e.event_id, level |-> e.level]

\* InsertedRows with nextval drawn for the rows of the batch from the last to
\* the first.
InsertedRowsBackwards(entries, seq) ==
    [i \in 1..Len(entries) |-> LogRow(seq + Len(entries) - i, entries[i])]

\* INSERT INTO logs SELECT nextval('logs_id_seq'), ... FROM temp_logs
InsertedRows(entries, seq) ==
    [i \in 1..Len(entries) |-> LogRow(seq + i - 1, entries[i])]

\* DatabaseManager.insert_logs on a store that accepts the batch.
insert_logs(entries) ==
    IF entries = <<>>
    THEN UNCHANGED storeVars
    ELSE /\ store' = store \o InsertedRows(entries, logs_id_seq)
         /\ logs_id_seq' = logs_id_seq + Len(entries)

----------------------------------------------------------------------------
(* Rules and actions of the configuration (alerts.rules) *)

Webhook(url, hint) ==
    [isDict |-> TRUE, type |-> "webhook", url |-> url, type_hint |-> hint,
     script |-> NoValue]

Email ==
    [isDict |-> TRUE, type |-> "email", url |-> NoValue, type_hint |-> NoValue,
     script |-> NoValue]

Remediation(script) ==
    [isDict |-> TRUE, type |-> "remediation", url |-> NoValue, type_hint |-> NoValue,
     script |-> script]

\* A list item that is not a mapping, such as the YAML scalar `- webhook`.
NonDictAction ==
    [isDict |-> FALSE, type |-> NoValue, url |-> NoValue, type_hint |-> NoValue,
     script |-> NoValue]

Rule(name, event_ids, severity, threshold, actions) ==
    [isDict |-> TRUE, wellTyped |-> TRUE, name |-> name, event_ids |-> event_ids,
     severity |-> severity, threshold |-> threshold, actions |-> actions]

\* A mapping with a field of the wrong type (event_ids: 5): building the query raises.
IllTypedRule ==
    [isDict |-> TRUE, wellTyped |-> FALSE, name |-> "Ill typed", event_ids |-> {},
     severity |-> NoValue, threshold |-> 1, actions |-> <<>>]

\* A list item that is not a mapping: rule.get raises AttributeError.
NonDictRule ==
    [isDict |-> FALSE, wellTyped |-> FALSE, name |-> NoValue, event_ids |-> {},
     severity |-> NoValue, threshold |-> 1, actions |-> <<>>]

FailedLogins(actions) == Rule("Failed Login Attempts", {4625}, NoValue, Threshold, actions)

CriticalErrors(actions) == Rule("Critical Errors", {}, "Critical", 1, actions)

\* The configurations explored: the rule lists a config file may hold.
RuleConfigs ==
    { << FailedLogins(<<Webhook("https://hook/a", "discord"), Remediation("unlock.ps1"),
                        Webhook(NoValue, "Slack")>>),
         CriticalErrors(<<Email, Remediation(NoValue), Webhook("https://hook/b", NoValue)>>) >>,
      << NonDictRule,
         FailedLogins(<<Webhook("https://hook/a", "teams")>>) >>,
      << IllTypedRule,
         FailedLogins(<<Webhook("https://hook/a", "discord"), NonDictAction,
                        Webhook("https://hook/b", "Slack")>>) >> }

----------------------------------------------------------------------------
(* Watcher._evaluate_rule: the query *)

\* conditions[0]: timestamp >= '<last_check>'. `n` is the `now` handed to
\* _evaluate_rule, which the query never uses.
TimeCondition(row, lc, n) == row.timestamp >= lc

\* event_id IN (...) when event_ids is not empty, level = '<severity>' when set
FilterConditions(rule, row) ==
    /\ (rule.event_ids # {} => row.event_id \in rule.event_ids)
    /\ (rule.severity # NoValue => row.level = rule.severity)

\* The WHERE clause: the conditions joined by AND.
WhereClause(rule, row, lc, n) == TimeCondition(row, lc, n) /\ FilterConditions(rule, row)

\* Rows of the store the WHERE clause selects.
Selected(rule, st, lc, n) == {r \in Range(st) : WhereClause(rule, r, lc, n)}

\* GROUP BY computer, event_id with COUNT(*)
GroupCount(rows, c, e) == Cardinality({r \in rows : r.computer = c /\ r.event_id = e})

Grouped(rows) ==
    {[computer |-> r.computer, event_id |-> r.event_id,
      count |-> GroupCount(rows, r.computer, r.event_id)] : r \in rows}

\* HAVING count >= threshold
QueryResults(rule, st, lc, n) ==
    {g \in Grouped(Selected(rule, st, lc, n)) : g.count >= rule.threshold}

----------------------------------------------------------------------------
(* Watcher._trigger_alert and the action handlers *)

\* "- <computer>: Event <event_id> (<count> times)\n"
FormatLine(g) == [dash |-> "- ", computer |-> g.computer, event |-> g.event_id,
                  times |-> g.count]

\* "**Alert: <name>**\n\nTriggered conditions:\n" followed by one line per result row
FormatMessage(rule, results) ==
    [alert |-> rule.name, lines |-> [i \in DOMAIN results |-> FormatLine(results[i])]]

Lower(s) ==
    CASE s = "Slack" -> "slack"
      [] s = "Discord" -> "discord"
      [] s = "DISCORD" -> "discord"
      [] OTHER -> s

\* action.get('type_hint', 'slack')
TypeHint(action) == IF action.type_hint = NoValue THEN "slack" ELSE action.type_hint

\* send_webhook: the payload by flavor
Payload(hint, message) ==
    IF Lower(hint) = "discord"
    THEN [content |-> message, username |-> "Headless Sentinel"]
    ELSE IF Lower(hint) = "slack"
    THEN [text |-> message, username |-> "Headless Sentinel", icon_emoji |-> ":shield:"]
    ELSE [message |-> message, source |-> "Headless Sentinel"]

TransportError == 0
WebhookStatuses == {200, 500, TransportError}

\* send_webhook: true exactly for HTTP 200 and 204, false otherwise, never raises
SendWebhookResult(status) == status = 200 \/ status = 204

\* Index of the first action whose handling raises (action.get on a non-mapping),
\* Len + 1 when none does.
FirstRaising(actions) ==
    IF \E k \in DOMAIN actions : ~actions[k].isDict
    THEN Min({k \in DOMAIN actions : ~actions[k].isDict})
    ELSE Len(actions) + 1

\* The actions the for-loop of _trigger_alert handles before it ends or raises.
Handled(actions) == 1..(FirstRaising(actions) - 1)

SendsWebhook(action) == action.type = "webhook" /\ action.url # NoValue

RunsRemediation(action) == action.type = "remediation" /\ action.script # NoValue

\* The send_webhook calls of one _trigger_alert, in call order.
WebhookCalls(t, r, rule, message, status) ==
    LET idx == SeqOfSet({k \in Handled(rule.actions) : SendsWebhook(rule.actions[k])})
        sorted == SortSeq(idx, LAMBDA a, b : a < b)
    IN [i \in DOMAIN sorted |->
          [tick |-> t, rule |-> r, action |-> sorted[i], url |-> rule.actions[sorted[i]].url,
           payload |-> Payload(TypeHint(rule.actions[sorted[i]]), message),
           ok |-> SendWebhookResult(status[sorted[i]])]]

\* The loop of _trigger_alert: one record per action reached, in list order.
DispatchRecords(t, r, rule) ==
    LET last == IF FirstRaising(rule.actions) <= Len(rule.actions)
                THEN FirstRaising(rule.actions) ELSE Len(rule.actions)
    IN [k \in 1..last |->
          [tick |-> t, rule |-> r, action |-> k,
           outcome |-> IF rule.actions[k].isDict THEN "handled" ELSE "raised"]]

\* _execute_remediation: one warning per result row; the remote call is a comment.
RemediationLines(t, r, rule, results) ==
    LET idx == SeqOfSet({k \in Handled(rule.actions) : RunsRemediation(rule.actions[k])})
        sorted == SortSeq(idx, LAMBDA a, b : a < b)
    IN Flatten([i \in DOMAIN sorted |->
          [j \in DOMAIN results |->
             [tick |-> t, rule |-> r, action |-> sorted[i],
              computer |-> results[j].computer]]])

\* _execute_remediation never reaches execute_powershell_remote.
RemediatorInvocations(t, r, rule, results) == <<>>

----------------------------------------------------------------------------
(* Inputs of the watcher specification *)

\* Event timestamps: one hour before start-up, and every instant the clock can
\* show (a remote host's clock may lead the collector's, so an event may be ahead).
TimeStamps == {StartTime - Hour} \cup (StartTime..MaxClock)

EventKinds ==
    { [computer |-> "10.0.0.1", event_id |-> 4625, level |-> "Error"],
      [computer |-> "10.0.0.2", event_id |-> 4625, level |-> "Critical"],
      [computer |-> "10.0.0.1", event_id |-> 1000, level |-> "Critical"] }

EntryInputs ==
    { [timestamp |-> t, computer |-> k.computer, log_name |-> "Security",
       event_id |-> k.event_id, level |-> k.level] : t \in TimeStamps, k \in EventKinds }

----------------------------------------------------------------------------
(* Watcher: __init__, start, _check_alerts, _evaluate_rule *)

\* Watcher.__init__ on a fresh store, with the collector at rest.
Init ==
    /\ clock = StartTime
    /\ store = <<>>
    /\ logs_id_seq = 1
    /\ alert_rules \in RuleConfigs
    /\ last_check = clock - Hour
    /\ wpc = "check"
    /\ now = clock
    /\ ruleIdx = 1
    /\ tick = 0
    /\ evalLog = <<>>
    /\ tickLog = <<>>
    /\ notifierCalls = <<>>
    /\ dispatchLog = <<>>
    /\ remediationLog = <<>>
    /\ remediatorCalls = <<>>
    /\ hosts = <<>>
    /\ log_names = <<>>
    /\ cpc = "idle"
    /\ cycle = 0
    /\ task = <<>>
    /\ chanIdx = <<>>
    /\ all_entries = <<>>
    /\ all_results = <<>>
    /\ cycleLog = <<>>
    /\ ExecOff /\ ParseOff /\ SanitizeOff /\ DbOff
    /\ TxnOff
    /\ RestoreOff
    /\ RetentionOff
    /\ BackupOff
    /\ CancelOff
    /\ CredOff
    /\ HostsOff
    /\ RangeOff
    /\ WebhookOff
    /\ SearchOff
    /\ IngestOff
    /\ LimiterOff
    /\ SchemaOff

\* Wall-clock time passes while the watcher runs.
TimePasses ==
    /\ wpc \in {"check", "rules"}
    /\ clock < MaxClock
    /\ clock' = clock + 1
    /\ UNCHANGED <<storeVars, watcherVars, collectorVars, execVars, parseVars, sanitizeVars,
                   dbVars, txnVars, restoreVars, retentionVars, backupVars, cancelVars,
                   credVars, hostVars, rangeVars, webhookVars, searchVars, ingestVars,
                   limiterVars, schemaVars>>

\* A collector commits a batch into the store the watcher reads. lateRows keeps
\* the id of a row whose timestamp is not after the last_check of this moment,
\* with that last_check.
Ingest ==
    /\ Len(store) < MaxRows
    /\ \E e \in EntryInputs :
         /\ insert_logs(<<e>>)
         /\ lateRows' = IF e.timestamp <= last_check
                        THEN lateRows \cup {[id |-> logs_id_seq, last_check |-> last_check]}
                        ELSE lateRows
    /\ UNCHANGED <<clock, watcherVars, collectorVars, execVars, parseVars, sanitizeVars,
                   dbVars, txnVars, restoreVars, retentionVars, backupVars, cancelVars,
                   credVars, hostVars, rangeVars, webhookVars, searchVars, limiterVars,
                   schemaVars>>

\* _check_alerts, first statement: now = datetime.utcnow()
CheckAlertsBegin ==
    /\ wpc = "check"
    /\ tick < MaxTicks
    /\ now' = clock
    /\ ruleIdx' = 1
    /\ tick' = tick + 1
    /\ wpc' = "rules"
    /\ UNCHANGED <<clock, storeVars, alert_rules, last_check, evalLog, tickLog,
                   notifierCalls, dispatchLog, remediationLog, remediatorCalls,
                   collectorVars, execVars, parseVars, sanitizeVars, dbVars, txnVars,
                   restoreVars, retentionVars, backupVars, cancelVars, credVars, hostVars,
                   rangeVars, webhookVars, searchVars, ingestVars, limiterVars, schemaVars>>

EvalRecord(rule, outcome, present, selected, results) ==
    [tick |-> tick, rule |-> ruleIdx, lo |-> last_check, hi |-> now, outcome |-> outcome,
     present |-> present,
     scanned |-> {r \in present : TimeCondition(r, last_check, now)},
     selected |-> selected, results |-> results]

\* The rule is not a mapping: _evaluate_rule raises AttributeError, and so does
\* rule.get('name') in the except clause of _check_alerts; the exception leaves
\* _check_alerts before last_check is assigned and start() backs off.
RuleHandlerRaises ==
    /\ wpc = "rules"
    /\ ruleIdx <= Len(alert_rules)
    /\ ~alert_rules[ruleIdx].isDict
    /\ evalLog' = Append(evalLog, EvalRecord(alert_rules[ruleIdx], "escaped", {}, {}, {}))
    /\ tickLog' = Append(tickLog, [tick |-> tick, lo |-> last_check, hi |-> now,
                                    completed |-> FALSE])
    /\ wpc' = "backoff"
    /\ UNCHANGED <<clock, storeVars, alert_rules, last_check, now, ruleIdx, tick,
                   notifierCalls, dispatchLog, remediationLog, remediatorCalls,
                   collectorVars, execVars, parseVars, sanitizeVars, dbVars, txnVars,
                   restoreVars, retentionVars, backupVars, cancelVars, credVars, hostVars,
                   rangeVars, webhookVars, searchVars, ingestVars, limiterVars, schemaVars>>

\* _evaluate_rule raises (an ill-typed field, or the store fails the query) and
\* the except clause of _check_alerts logs it.
RuleRaises ==
    /\ wpc = "rules"
    /\ ruleIdx <= Len(alert_rules)
    /\ alert_rules[ruleIdx].isDict
    /\ evalLog' = Append(evalLog, EvalRecord(alert_rules[ruleIdx], "caught", {}, {}, {}))
    /\ ruleIdx' = ruleIdx + 1
    /\ UNCHANGED <<clock, storeVars, alert_rules, last_check, wpc, now, tick, tickLog,
                   notifierCalls, dispatchLog, remediationLog, remediatorCalls,
                   collectorVars, execVars, parseVars, sanitizeVars, dbVars, txnVars,
                   restoreVars, retentionVars, backupVars, cancelVars, credVars, hostVars,
                   rangeVars, webhookVars, searchVars, ingestVars, limiterVars, schemaVars>>

\* The query returns no group: results.empty
RuleQuiet ==
    /\ wpc = "rules"
    /\ ruleIdx <= Len(alert_rules)
    /\ alert_rules[ruleIdx].isDict /\ alert_rules[ruleIdx].wellTyped
    /\ LET rule == alert_rules[ruleIdx] IN
       /\ QueryResults(rule, store, last_check, now) = {}
       /\ evalLog' = Append(evalLog,
              EvalRecord(rule, "quiet", Range(store),
                         Selected(rule, store, last_check, now), {}))
    /\ ruleIdx' = ruleIdx + 1
    /\ UNCHANGED <<clock, storeVars, alert_rules, last_check, wpc, now, tick, tickLog,
                   notifierCalls, dispatchLog, remediationLog, remediatorCalls,
                   collectorVars, execVars, parseVars, sanitizeVars, dbVars, txnVars,
                   restoreVars, retentionVars, backupVars, cancelVars, credVars, hostVars,
                   rangeVars, webhookVars, searchVars, ingestVars, limiterVars, schemaVars>>

\* The query returns groups: _trigger_alert runs the rule's actions in list order.
\* The rows of the result come in an order GROUP BY does not fix.
RuleFires ==
    /\ wpc = "rules"
    /\ ruleIdx <= Len(alert_rules)
    /\ alert_rules[ruleIdx].isDict /\ alert_rules[ruleIdx].wellTyped
    /\ LET rule == alert_rules[ruleIdx]
           found == QueryResults(rule, store, last_check, now)
           senders == {k \in Handled(rule.actions) : SendsWebhook(rule.actions[k])}
       IN
       /\ found # {}
       /\ \E results \in Orderings(found), status \in [senders -> WebhookStatuses] :
            /\ notifierCalls' = notifierCalls \o
                   WebhookCalls(tick, ruleIdx, rule, FormatMessage(rule, results), status)
            /\ dispatchLog' = dispatchLog \o DispatchRecords(tick, ruleIdx, rule)
            /\ remediationLog' = remediationLog \o
                   RemediationLines(tick, ruleIdx, rule, results)
            /\ remediatorCalls' = remediatorCalls \o
                   RemediatorInvocations(tick, ruleIdx, rule, results)
       /\ evalLog' = Append(evalLog,
              EvalRecord(rule,
                         IF FirstRaising(rule.actions) <= Len(rule.actions)
                         THEN "fired_raised" ELSE "fired",
                         Range(store), Selected(rule, store, last_check, now), found))
    /\ ruleIdx' = ruleIdx + 1
    /\ UNCHANGED <<clock, storeVars, alert_rules, last_check, wpc, now, tick, tickLog,
                   collectorVars, execVars, parseVars, sanitizeVars, dbVars, txnVars,
                   restoreVars, retentionVars, backupVars, cancelVars, credVars, hostVars,
                   rangeVars, webhookVars, searchVars, ingestVars, limiterVars, schemaVars>>

\* One iteration of the for-loop of _check_alerts.
EvaluateRule == RuleHandlerRaises \/ RuleRaises \/ RuleQuiet \/ RuleFires

\* CheckAlertsEnd with the instant read again at the end of the tick
\* (self.last_check = datetime.utcnow()) instead of the `now` of its start.
CheckAlertsEndLate ==
    /\ wpc = "rules"
    /\ ruleIdx > Len(alert_rules)
    /\ last_check' = clock
    /\ tickLog' = Append(tickLog, [tick |-> tick, lo |-> last_check, hi |-> now,
                                    completed |-> TRUE])
    /\ wpc' = "sleep"
    /\ UNCHANGED <<clock, storeVars, alert_rules, now, ruleIdx, tick, evalLog,
                   notifierCalls, dispatchLog, remediationLog, remediatorCalls,
                   collectorVars, execVars, parseVars, sanitizeVars, dbVars, txnVars,
                   restoreVars, retentionVars, backupVars, cancelVars, credVars, hostVars,
                   rangeVars, webhookVars, searchVars, ingestVars, limiterVars, schemaVars>>

\* _check_alerts, last statement: self.last_check = now
CheckAlertsEnd ==
    /\ wpc = "rules"
    /\ ruleIdx > Len(alert_rules)
    /\ last_check' = now
    /\ tickLog' = Append(tickLog, [tick |-> tick, lo |-> last_check, hi |-> now,
                                    completed |-> TRUE])
    /\ wpc' = "sleep"
    /\ UNCHANGED <<clock, storeVars, alert_rules, now, ruleIdx, tick, evalLog,
                   notifierCalls, dispatchLog, remediationLog, remediatorCalls,
                   collectorVars, execVars, parseVars, sanitizeVars, dbVars, txnVars,
                   restoreVars, retentionVars, backupVars, cancelVars, credVars, hostVars,
                   rangeVars, webhookVars, searchVars, ingestVars, limiterVars, schemaVars>>

\* start(): await asyncio.sleep(self.check_interval) after a tick that returned
Sleep ==
    /\ wpc = "sleep"
    /\ clock + CheckInterval <= MaxClock
    /\ clock' = clock + CheckInterval
    /\ wpc' = "check"
    /\ UNCHANGED <<storeVars, alert_rules, last_check, now, ruleIdx, tick, evalLog,
                   tickLog, notifierCalls, dispatchLog, remediationLog, remediatorCalls,
                   collectorVars, execVars, parseVars, sanitizeVars, dbVars, txnVars,
                   restoreVars, retentionVars, backupVars, cancelVars, credVars, hostVars,
                   rangeVars, webhookVars, searchVars, ingestVars, limiterVars, schemaVars>>

\* BackoffSleep with start() returning after the sleep instead of going round
\* the loop again.
BackoffSleepReturns ==
    /\ wpc = "backoff"
    /\ clock + Backoff <= MaxClock
    /\ clock' = clock + Backoff
    /\ wpc' = "returned"
    /\ UNCHANGED <<storeVars, alert_rules, last_check, now, ruleIdx, tick, evalLog,
                   tickLog, notifierCalls, dispatchLog, remediationLog, remediatorCalls,
                   collectorVars, execVars, parseVars, sanitizeVars, dbVars, txnVars,
                   restoreVars, retentionVars, backupVars, cancelVars, credVars, hostVars,
                   rangeVars, webhookVars, searchVars, ingestVars, limiterVars, schemaVars>>

\* start(): await asyncio.sleep(60) after a tick that raised
BackoffSleep ==
    /\ wpc = "backoff"
    /\ clock + Backoff <= MaxClock
    /\ clock' = clock + Backoff
    /\ wpc' = "check"
    /\ UNCHANGED <<storeVars, alert_rules, last_check, now, ruleIdx, tick, evalLog,
                   tickLog, notifierCalls, dispatchLog, remediationLog, remediatorCalls,
                   collectorVars, execVars, parseVars, sanitizeVars, dbVars, txnVars,
                   restoreVars, retentionVars, backupVars, cancelVars, credVars, hostVars,
                   rangeVars, webhookVars, searchVars, ingestVars, limiterVars, schemaVars>>

Next ==
    \/ TimePasses
    \/ Ingest
    \/ CheckAlertsBegin
    \/ EvaluateRule
    \/ CheckAlertsEnd
    \/ Sleep
    \/ BackoffSleep

Spec == Init /\ [][Next]_vars

\* The steps of the coroutine start(): the event loop resumes it when a sleep
\* is over, and a query or a handler that was called returns or raises.
WatcherStep == CheckAlertsBegin \/ EvaluateRule \/ CheckAlertsEnd \/ Sleep \/ BackoffSleep

SpecLive == Spec /\ WF_vars(WatcherStep)

----------------------------------------------------------------------------
(* LogCollector._parse_event_xml *)

MessageLimit == 1000  \* message[:1000]

\* One fragment of the executor's output between two '---EVENT_SEPARATOR---'.
\* shape "typical": an event as Get-WinEvent's ToXml() writes it, whose EventID,
\*   Level and TimeCreated elements hold text or attributes and no child element;
\* shape "nested": the same with a child element inside each of the three;
\* shape "no_level": as "nested", without a Level element;
\* shape "malformed": text of 50 characters or more that ET.fromstring rejects;
\* shape "blank": fewer than 50 characters after strip().
\* timestamp and zone: TimeCreated/@SystemTime, its clock reading in minutes and
\*   its suffix "Z", "+01:00", "" (none) or "bad" (no ISO-8601 text at all);
\* event_id, level: the texts of EventID and Level;
\* provider: Provider/@Name, NoValue without a Provider element;
\* data: the EventData/Data texts, each with its length in characters.
FragmentOf(shape, ts, zone, eid, lvl, provider, data) ==
    [shape |-> shape, timestamp |-> ts, zone |-> zone, event_id |-> eid, level |-> lvl,
     provider |-> provider, data |-> data]

Fragment(shape, ts, eid, lvl) ==
    FragmentOf(shape, ts, "Z", eid, lvl, "Microsoft-Windows-Security-Auditing", <<>>)

Text(s, n) == [text |-> s, len |-> n]

\* SEVERITY_MAP read with 'Information' as the default of get().
SEVERITY_MAP_Informational(text) ==
    CASE text = "1" -> "Critical"
      [] text = "2" -> "Error"
      [] text = "3" -> "Warning"
      [] text = "5" -> "Verbose"
      [] OTHER -> "Information"

\* LogCollector.SEVERITY_MAP.get(level_elem.text, 'Unknown')
SEVERITY_MAP(text) ==
    CASE text = "1" -> "Critical"
      [] text = "2" -> "Error"
      [] text = "3" -> "Warning"
      [] text = "4" -> "Information"
      [] text = "5" -> "Verbose"
      [] OTHER -> "Unknown"

\* int(event_id_elem.text): the texts int() accepts, and their values
IsInt(text) == text \in {"4625", "1000"}

IntOf(text) == IF text = "4625" THEN 4625 ELSE 1000

\* datetime.fromisoformat(SystemTime.replace('Z', '+00:00')): the clock reading
\* is kept as written; tzinfo is timezone.utc for "Z", the written offset for an
\* offset, None for a text without suffix. No conversion to UTC takes place.
fromisoformat(ts, zone) ==
    [timestamp |-> ts,
     tzinfo |-> IF zone = "Z" THEN "UTC" ELSE IF zone = "" THEN NoValue ELSE zone]

\* The Data texts kept by `if data.text`
MessageParts(data) == SelectSeq(data, LAMBDA d : d.len > 0)

RECURSIVE JoinLen(_)
\* len(' | '.join(message_parts))
JoinLen(parts) ==
    IF parts = <<>> THEN 0
    ELSE IF Len(parts) = 1 THEN parts[1].len
    ELSE parts[1].len + 3 + JoinLen(Tail(parts))

\* message = ' | '.join(message_parts) if message_parts else 'No message',
\* cut by message[:1000]
Message(data) ==
    LET parts == MessageParts(data) IN
    IF parts = <<>>
    THEN [text |-> <<"No message">>, len |-> 10]
    ELSE [text |-> [i \in DOMAIN parts |-> parts[i].text],
          len |-> IF JoinLen(parts) > MessageLimit THEN MessageLimit ELSE JoinLen(parts)]

\* bool(Element): an xml.etree Element is true only when it has child elements,
\* so all([event_id_elem, level_elem, time_elem]) fails for a typical event, and
\* for an event that lacks one of the three.
AllElementsTrue(f) == f.shape = "nested"

\* What the loop body does with one fragment, in the order of its statements.
FragmentOutcome(f) ==
    IF f.shape = "blank" THEN "short"
    ELSE IF f.shape = "malformed" THEN "ParseError"
    ELSE IF ~AllElementsTrue(f) THEN "not_all"
    ELSE IF f.zone = "bad" \/ ~IsInt(f.event_id) THEN "ValueError"
    ELSE "entry"

\* The fragments for which the loop body reaches entries.append(entry).
Emitted(f) == FragmentOutcome(f) = "entry"

\* entry = LogEntry(...)
LogEntryOf(f, computer, log_name) ==
    [timestamp |-> fromisoformat(f.timestamp, f.zone).timestamp,
     tzinfo |-> fromisoformat(f.timestamp, f.zone).tzinfo,
     computer |-> computer, log_name |-> log_name,
     event_id |-> IntOf(f.event_id), level |-> SEVERITY_MAP(f.level),
     source |-> IF f.provider = NoValue THEN "Unknown" ELSE f.provider,
     message |-> Message(f.data)]

\* _parse_event_xml with an exception of a fragment ending the loop instead of
\* being caught inside it.
_parse_event_xml_aborting(xml_output, computer, log_name) ==
    LET bad == {i \in DOMAIN xml_output :
                   FragmentOutcome(xml_output[i]) \in {"ParseError", "ValueError"}}
        stop == IF bad = {} THEN Len(xml_output) + 1 ELSE Min(bad)
        kept == SelectSeq(SubSeq(xml_output, 1, stop - 1), Emitted)
    IN [i \in DOMAIN kept |-> LogEntryOf(kept[i], computer, log_name)]

_parse_event_xml(xml_output, computer, log_name) ==
    LET kept == SelectSeq(xml_output, Emitted)
    IN [i \in DOMAIN kept |-> LogEntryOf(kept[i], computer, log_name)]

\* A fragment that is a well-formed event: 50 characters or more, EventID,
\* Level and TimeCreated present with values that parse.
WellFormed(f) ==
    f.shape \in {"typical", "nested"} /\ IsInt(f.event_id) /\ f.zone # "bad"

\* Number of well-formed events in an executor output.
EventCount(xml_output) == Len(SelectSeq(xml_output, WellFormed))

----------------------------------------------------------------------------
(* _parse_event_xml on its own: the payloads explored *)

MaxFragments == 2     \* fragments in a payload

FragmentInputs ==
    { FragmentOf("typical", StartTime, "Z", "4625", "2", "Sec", <<Text("alice", 5)>>),
      FragmentOf("nested", StartTime, "Z", "4625", "2", "Sec",
                 <<Text("alice", 5), Text("", 0), Text("10.0.0.9", 8)>>),
      FragmentOf("nested", StartTime, "Z", "1000", "9", NoValue, <<>>),
      FragmentOf("nested", StartTime, "Z", "1000", "0", "Sec",
                 <<Text("aaa", 700), Text("bbb", 700)>>),
      FragmentOf("nested", StartTime + Hour, "+01:00", "4625", "1", "Sec", <<>>),
      FragmentOf("nested", StartTime, "", "4625", "3", "Sec", <<>>),
      FragmentOf("nested", StartTime, "bad", "4625", "2", "Sec", <<>>),
      FragmentOf("nested", StartTime, "Z", "abc", "2", "Sec", <<>>),
      FragmentOf("no_level", StartTime, "Z", "4625", NoValue, "Sec", <<>>),
      FragmentOf("malformed", 0, "bad", "", "", NoValue, <<>>),
      FragmentOf("blank", 0, "bad", "", "", NoValue, <<>>) }

Payloads == UNION {[1..n -> FragmentInputs] : n \in 0..MaxFragments}

\* A payload is about to be parsed; nothing else runs.
InitParse ==
    /\ clock = StartTime
    /\ store = <<>>
    /\ logs_id_seq = 1
    /\ alert_rules = <<>>
    /\ last_check = clock - Hour
    /\ wpc = "off"
    /\ now = clock
    /\ ruleIdx = 1
    /\ tick = 0
    /\ evalLog = <<>>
    /\ tickLog = <<>>
    /\ notifierCalls = <<>>
    /\ dispatchLog = <<>>
    /\ remediationLog = <<>>
    /\ remediatorCalls = <<>>
    /\ hosts = <<>>
    /\ log_names = <<>>
    /\ cpc = "idle"
    /\ cycle = 0
    /\ task = <<>>
    /\ chanIdx = <<>>
    /\ all_entries = <<>>
    /\ all_results = <<>>
    /\ cycleLog = <<>>
    /\ payload \in Payloads
    /\ parsed = <<>>
    /\ ppc = "input"
    /\ ExecOff /\ SanitizeOff /\ DbOff
    /\ TxnOff
    /\ RestoreOff
    /\ RetentionOff
    /\ BackupOff
    /\ CancelOff
    /\ CredOff
    /\ HostsOff
    /\ RangeOff
    /\ WebhookOff
    /\ SearchOff
    /\ IngestOff
    /\ LimiterOff
    /\ SchemaOff

\* entries = self._parse_event_xml(xml_output, host.ip, log_name)
ParsePayload ==
    /\ ppc = "input"
    /\ parsed' = _parse_event_xml(payload, "10.0.0.1", "Security")
    /\ ppc' = "parsed"
    /\ UNCHANGED <<clock, storeVars, watcherVars, collectorVars, execVars, payload,
                   sanitizeVars, dbVars, txnVars, restoreVars, retentionVars, backupVars,
                   cancelVars, credVars, hostVars, rangeVars, webhookVars, searchVars,
                   ingestVars, limiterVars, schemaVars>>

NextParse == ParsePayload

SpecParse == InitParse /\ [][NextParse]_vars

----------------------------------------------------------------------------
(* Inputs of the collector specification *)

\* The configurations explored: the targets (all with credentials) and the
\* channels of collection.log_types.
CollectorConfigs ==
    { [targets |-> <<"10.0.0.1", "10.0.0.2", "10.0.0.3">>, log_types |-> <<"Security">>],
      [targets |-> <<"10.0.0.1">>, log_types |-> <<"System", "Security">>] }

\* What `await loop.run_in_executor(None, host.execute_powershell, script)` gives:
\* None, an exception, or the script's output.
ExecutorOutcomes ==
    { [kind |-> "none", xml |-> <<>>],
      [kind |-> "raise", xml |-> <<>>],
      [kind |-> "output", xml |-> <<Fragment("typical", StartTime, "4625", "2")>>],
      [kind |-> "output", xml |-> <<Fragment("nested", StartTime, "4625", "2"),
                                    Fragment("malformed", 0, "", "")>>],
      [kind |-> "output", xml |-> <<Fragment("nested", StartTime, "1000", "4"),
                                    Fragment("nested", StartTime - 1, "4625", "2")>>] }

----------------------------------------------------------------------------
(* LogCollector: collect_all, collect_from_host, run_continuous *)

HostSet == Range(hosts)

\* The host collectors in flight: collect_from_host calls that started and have
\* not returned.
InFlight == {h \in HostSet : task[h].state = "running"}

\* LogCollector.__init__ with every target holding credentials, on a fresh store.
InitCollect ==
    /\ clock = StartTime
    /\ store = <<>>
    /\ logs_id_seq = 1
    /\ alert_rules = <<>>
    /\ last_check = clock - Hour
    /\ wpc = "off"
    /\ now = clock
    /\ ruleIdx = 1
    /\ tick = 0
    /\ evalLog = <<>>
    /\ tickLog = <<>>
    /\ notifierCalls = <<>>
    /\ dispatchLog = <<>>
    /\ remediationLog = <<>>
    /\ remediatorCalls = <<>>
    /\ \E cfg \in CollectorConfigs :
         /\ hosts = cfg.targets
         /\ log_names = cfg.log_types
    /\ cpc = "idle"
    /\ cycle = 0
    /\ task = [h \in HostSet |-> [state |-> "none", events |-> 0, failed |-> FALSE,
                                   channels |-> <<>>]]
    /\ chanIdx = [h \in HostSet |-> 1]
    /\ all_entries = [h \in HostSet |-> <<>>]
    /\ all_results = <<>>
    /\ cycleLog = <<>>
    /\ ExecOff /\ ParseOff /\ SanitizeOff /\ DbOff
    /\ TxnOff
    /\ RestoreOff
    /\ RetentionOff
    /\ BackupOff
    /\ CancelOff
    /\ CredOff
    /\ HostsOff
    /\ RangeOff
    /\ WebhookOff
    /\ SearchOff
    /\ IngestOff
    /\ LimiterOff
    /\ SchemaOff

\* collect_all up to asyncio.as_completed(tasks): one coroutine per host, all
\* of them scheduled at once.
CollectAllBegin ==
    /\ cpc = "idle"
    /\ cycle < MaxCycles
    /\ cycle' = cycle + 1
    /\ task' = [h \in HostSet |-> [state |-> "created", events |-> 0, failed |-> FALSE,
                                    channels |-> <<>>]]
    /\ chanIdx' = [h \in HostSet |-> 1]
    /\ all_entries' = [h \in HostSet |-> <<>>]
    /\ all_results' = <<>>
    /\ cpc' = "gather"
    /\ UNCHANGED <<clock, storeVars, watcherVars, execVars, parseVars, sanitizeVars, dbVars,
                   hosts, log_names, cycleLog, txnVars, restoreVars, retentionVars,
                   backupVars, cancelVars, credVars, hostVars, rangeVars, webhookVars,
                   searchVars, ingestVars, limiterVars, schemaVars>>

\* The event loop starts the coroutine of host h: collect_from_host runs up to
\* its first await. Nothing limits how many have started.
HostStart(h) ==
    /\ cpc = "gather"
    /\ task[h].state = "created"
    /\ task' = [task EXCEPT ![h].state = "running"]
    /\ UNCHANGED <<clock, storeVars, watcherVars, execVars, parseVars, sanitizeVars, dbVars,
                   hosts, log_names, cpc, cycle, chanIdx, all_entries, all_results,
                   cycleLog, txnVars, restoreVars, retentionVars, backupVars, cancelVars,
                   credVars, hostVars, rangeVars, webhookVars, searchVars, ingestVars,
                   limiterVars, schemaVars>>

\* HostChannel with a failed channel ending the collection of the host with
\* nothing: all_entries is emptied and the remaining channels are not tried.
HostChannelDiscards(h) ==
    /\ cpc = "gather"
    /\ task[h].state = "running"
    /\ chanIdx[h] <= Len(log_names)
    /\ \E out \in ExecutorOutcomes :
         /\ all_entries' = [all_entries EXCEPT ![h] =
                IF out.kind = "output"
                THEN @ \o _parse_event_xml(out.xml, h, log_names[chanIdx[h]])
                ELSE <<>>]
         /\ task' = [task EXCEPT ![h].events = @ + EventCount(out.xml),
                                 ![h].failed = @ \/ out.kind # "output",
                                 ![h].channels = Append(@,
                                     [log_name |-> log_names[chanIdx[h]],
                                      kind |-> out.kind, xml |-> out.xml])]
         /\ chanIdx' = [chanIdx EXCEPT ![h] =
                IF out.kind = "output" THEN @ + 1 ELSE Len(log_names) + 1]
    /\ UNCHANGED <<clock, storeVars, watcherVars, execVars, parseVars, sanitizeVars, dbVars,
                   hosts, log_names, cpc, cycle, all_results, cycleLog, txnVars, restoreVars,
                   retentionVars, backupVars, cancelVars, credVars, hostVars, rangeVars,
                   webhookVars, searchVars, ingestVars, limiterVars, schemaVars>>

\* One iteration of the for-loop of collect_from_host for host h. task[h].channels
\* keeps what the executor gave for each channel tried.
HostChannel(h) ==
    /\ cpc = "gather"
    /\ task[h].state = "running"
    /\ chanIdx[h] <= Len(log_names)
    /\ \E out \in ExecutorOutcomes :
         /\ all_entries' = [all_entries EXCEPT ![h] =
                IF out.kind = "output"
                THEN @ \o _parse_event_xml(out.xml, h, log_names[chanIdx[h]])
                ELSE @]
         /\ task' = [task EXCEPT ![h].events = @ + EventCount(out.xml),
                                 ![h].failed = @ \/ out.kind # "output",
                                 ![h].channels = Append(@,
                                     [log_name |-> log_names[chanIdx[h]],
                                      kind |-> out.kind, xml |-> out.xml])]
    /\ chanIdx' = [chanIdx EXCEPT ![h] = @ + 1]
    /\ UNCHANGED <<clock, storeVars, watcherVars, execVars, parseVars, sanitizeVars, dbVars,
                   hosts, log_names, cpc, cycle, all_results, cycleLog, txnVars, restoreVars,
                   retentionVars, backupVars, cancelVars, credVars, hostVars, rangeVars,
                   webhookVars, searchVars, ingestVars, limiterVars, schemaVars>>

\* HostReturn with the batch of host h handed to the store as soon as the host
\* returns, one insert per host.
HostReturnStores(h) ==
    /\ cpc = "gather"
    /\ task[h].state = "running"
    /\ chanIdx[h] > Len(log_names)
    /\ task' = [task EXCEPT ![h].state = "done"]
    /\ insert_logs(all_entries[h])
    /\ UNCHANGED <<clock, watcherVars, execVars, parseVars, sanitizeVars, dbVars,
                   hosts, log_names, cpc, cycle, chanIdx, all_entries, all_results,
                   cycleLog, txnVars, restoreVars, retentionVars, backupVars, cancelVars,
                   credVars, hostVars, rangeVars, webhookVars, searchVars, ingestVars,
                   limiterVars, schemaVars>>

\* collect_from_host returns all_entries; the loop over as_completed extends
\* all_results with it.
HostReturn(h) ==
    /\ cpc = "gather"
    /\ task[h].state = "running"
    /\ chanIdx[h] > Len(log_names)
    /\ task' = [task EXCEPT ![h].state = "done"]
    /\ all_results' = all_results \o all_entries[h]
    /\ UNCHANGED <<clock, storeVars, watcherVars, execVars, parseVars, sanitizeVars, dbVars,
                   hosts, log_names, cpc, cycle, chanIdx, all_entries, cycleLog, txnVars,
                   restoreVars, retentionVars, backupVars, cancelVars, credVars, hostVars,
                   rangeVars, webhookVars, searchVars, ingestVars, limiterVars, schemaVars>>

CycleRecord(result, rows_after) ==
    [cycle |-> cycle, attempted |-> {h \in HostSet : task[h].state = "done"},
     failed |-> {h \in HostSet : task[h].failed},
     events |-> [h \in HostSet |-> task[h].events],
     batch |-> all_results, rows_before |-> Len(store), rows_after |-> rows_after,
     result |-> result, at |-> clock]

\* collect_all after the loop: insert_logs(all_results) when anything was
\* collected, and the store accepts the batch.
CollectAllStore ==
    /\ cpc = "gather"
    /\ \A h \in HostSet : task[h].state = "done"
    /\ insert_logs(all_results)
    /\ cycleLog' = Append(cycleLog, CycleRecord("returned", Len(store')))
    /\ cpc' = "sleep"
    /\ UNCHANGED <<clock, watcherVars, execVars, parseVars, sanitizeVars, dbVars, hosts,
                   log_names, cycle, task, chanIdx, all_entries, all_results, txnVars,
                   restoreVars, retentionVars, backupVars, cancelVars, credVars, hostVars,
                   rangeVars, webhookVars, searchVars, ingestVars, limiterVars, schemaVars>>

\* collect_all after the loop: insert_logs raises and the exception leaves
\* run_continuous as well: the loop is over.
CollectAllStoreFailsExits ==
    /\ cpc = "gather"
    /\ \A h \in HostSet : task[h].state = "done"
    /\ all_results # <<>>
    /\ cycleLog' = Append(cycleLog, CycleRecord("raised", Len(store)))
    /\ cpc' = "exited"
    /\ UNCHANGED <<clock, storeVars, watcherVars, execVars, parseVars, sanitizeVars, dbVars,
                   hosts, log_names, cycle, task, chanIdx, all_entries, all_results,
                   txnVars, restoreVars, retentionVars, backupVars, cancelVars, credVars,
                   hostVars, rangeVars, webhookVars, searchVars, ingestVars, limiterVars,
                   schemaVars>>

\* collect_all after the loop: insert_logs raises (the store rejects the batch)
\* and the exception leaves collect_all.
CollectAllStoreFails ==
    /\ cpc = "gather"
    /\ \A h \in HostSet : task[h].state = "done"
    /\ all_results # <<>>
    /\ cycleLog' = Append(cycleLog, CycleRecord("raised", Len(store)))
    /\ cpc' = "backoff"
    /\ UNCHANGED <<clock, storeVars, watcherVars, execVars, parseVars, sanitizeVars, dbVars,
                   hosts, log_names, cycle, task, chanIdx, all_entries, all_results,
                   txnVars, restoreVars, retentionVars, backupVars, cancelVars, credVars,
                   hostVars, rangeVars, webhookVars, searchVars, ingestVars, limiterVars,
                   schemaVars>>

CollectInterval == 5  \* run_continuous(interval=300), in minutes
CollectorBackoff == 1 \* asyncio.sleep(60) after a cycle that raised, in minutes

\* run_continuous: asyncio.sleep(interval) after a cycle, asyncio.sleep(60)
\* after one that raised; then the next iteration.
CollectorSleep ==
    /\ cpc \in {"sleep", "backoff"}
    /\ clock' = clock + (IF cpc = "sleep" THEN CollectInterval ELSE CollectorBackoff)
    /\ cpc' = "idle"
    /\ UNCHANGED <<storeVars, watcherVars, execVars, parseVars, sanitizeVars, dbVars, hosts,
                   log_names, cycle, task, chanIdx, all_entries, all_results, cycleLog,
                   txnVars, restoreVars, retentionVars, backupVars, cancelVars, credVars,
                   hostVars, rangeVars, webhookVars, searchVars, ingestVars, limiterVars,
                   schemaVars>>

NextCollect ==
    \/ CollectAllBegin
    \/ \E h \in HostSet : HostStart(h)
    \/ \E h \in HostSet : HostChannel(h)
    \/ \E h \in HostSet : HostReturn(h)
    \/ CollectAllStore
    \/ CollectAllStoreFails
    \/ CollectorSleep

SpecCollect == InitCollect /\ [][NextCollect]_vars

\* The event loop runs what is ready: a sleep ends, an executor call returns, a
\* coroutine that can go on does.
SpecCollectLive == SpecCollect /\ WF_vars(NextCollect)

\* Ctrl-C while `sentinel collect --continuous` runs. asyncio.run cancels the
\* main task: CancelledError is raised at the await the task stands at, passes
\* the `except Exception` of collect_all and both except clauses of
\* run_continuous, the remaining coroutines are cancelled, asyncio.run raises
\* KeyboardInterrupt and the command prints and calls sys.exit(0).
Interrupt ==
    /\ cpc \in {"idle", "gather", "sleep", "backoff"}
    /\ cycle > 0
    /\ interrupt' = [at |-> cpc, inflight |-> InFlight,
                     done |-> {h \in HostSet : task[h].state = "done"},
                     collected |-> all_results, rows_before |-> Len(store)]
    /\ task' = [h \in HostSet |->
                  IF task[h].state \in {"created", "running"}
                  THEN [task[h] EXCEPT !.state = "cancelled"] ELSE task[h]]
    /\ cpc' = "exited"
    /\ exit_code' = 0
    /\ UNCHANGED <<clock, storeVars, watcherVars, execVars, parseVars, sanitizeVars, dbVars,
                   hosts, log_names, cycle, chanIdx, all_entries, all_results, cycleLog,
                   txnVars, restoreVars, retentionVars, backupVars, credVars, hostVars,
                   rangeVars, webhookVars, searchVars, ingestVars, limiterVars, schemaVars>>

NextCancel ==
    \/ NextCollect
    \/ Interrupt

SpecCancel == InitCollect /\ [][NextCancel]_vars

\* LogCollector.__init__ with targets of which some have no credentials:
\* _initialize_hosts appends a RemoteHost for each target get_credentials
\* answers for, and logs and goes on for each target it raises for.
InitHosts ==
    /\ clock = StartTime
    /\ store = <<>>
    /\ logs_id_seq = 1
    /\ WatcherOff
    /\ ExecOff /\ ParseOff /\ SanitizeOff /\ DbOff /\ TxnOff /\ RestoreOff /\ RetentionOff
    /\ BackupOff /\ CancelOff /\ CredOff
    /\ targets = <<"10.0.0.1", "10.0.0.2">>
    /\ has_creds \in [Range(targets) -> BOOLEAN]
    /\ hosts = LET Found(t) == has_creds[t] IN SelectSeq(targets, Found)
    /\ log_names = <<"Security">>
    /\ cpc = "idle"
    /\ cycle = 0
    /\ task = [h \in HostSet |-> [state |-> "none", events |-> 0, failed |-> FALSE,
                                   channels |-> <<>>]]
    /\ chanIdx = [h \in HostSet |-> 1]
    /\ all_entries = [h \in HostSet |-> <<>>]
    /\ all_results = <<>>
    /\ cycleLog = <<>>
    /\ RangeOff
    /\ WebhookOff
    /\ SearchOff
    /\ IngestOff
    /\ LimiterOff
    /\ SchemaOff

\* Credentials for target t are put into the secret store while the collector
\* runs (ConfigManager.set_credentials from another command).
CredentialsStored(t) ==
    /\ ~has_creds[t]
    /\ has_creds' = [has_creds EXCEPT ![t] = TRUE]
    /\ UNCHANGED <<clock, storeVars, watcherVars, collectorVars, execVars, parseVars,
                   sanitizeVars, dbVars, txnVars, restoreVars, retentionVars, backupVars,
                   cancelVars, credVars, targets, rangeVars, webhookVars, searchVars,
                   ingestVars, limiterVars, schemaVars>>

NextHosts ==
    \/ NextCollect
    \/ \E t \in Range(targets) : CredentialsStored(t)

SpecHosts == InitHosts /\ [][NextHosts]_vars

----------------------------------------------------------------------------
(* RemoteHost.execute_powershell under @retry_on_failure(max_attempts=3, delay=5) *)

MaxAttempts == 3      \* retry_on_failure(max_attempts=3, ...)
RetryDelay == 5       \* retry_on_failure(..., delay=5), seconds

\* The wrapper of retry_on_failure after attempt n of the function ended with
\* `outcome`: a value is returned at once, an exception is retried after a
\* sleep until attempt max_attempts, whose exception is raised again.
retry_on_failure(outcome, n) ==
    IF outcome # "raised" THEN "return"
    ELSE IF n = MaxAttempts THEN "raise"
    ELSE "retry"

\* execute_powershell's body ends attempt `attempt` with `outcome`, leaving the
\* handles `shells` and `commands` open; the wrapper takes over. `ran` is how
\* the last run of the script ended ("zero", "nonzero", "raised"), NoValue when
\* the script was not run.
ExecFinish(outcome, why, shells, commands, ran) ==
    /\ open_shells' = shells
    /\ open_commands' = commands
    /\ IF retry_on_failure(outcome, attempt) = "retry"
       THEN /\ attempt' = attempt + 1
            /\ slept' = slept + RetryDelay
            /\ epc' = "entry"
            /\ cause' = NoValue
            /\ UNCHANGED execLog
       ELSE /\ execLog' = Append(execLog,
                [call |-> call, attempts |-> attempt, slept |-> slept, cause |-> why,
                 result |-> outcome, shells_left |-> shells, commands_left |-> commands,
                 ran |-> ran])
            /\ epc' = "idle"
            /\ UNCHANGED <<attempt, slept, cause>>

\* A RemoteHost that never connected; nothing else runs.
InitExec ==
    /\ clock = StartTime
    /\ store = <<>>
    /\ logs_id_seq = 1
    /\ alert_rules = <<>>
    /\ last_check = clock - Hour
    /\ wpc = "off"
    /\ now = clock
    /\ ruleIdx = 1
    /\ tick = 0
    /\ evalLog = <<>>
    /\ tickLog = <<>>
    /\ notifierCalls = <<>>
    /\ dispatchLog = <<>>
    /\ remediationLog = <<>>
    /\ remediatorCalls = <<>>
    /\ hosts = <<>>
    /\ log_names = <<>>
    /\ cpc = "idle"
    /\ cycle = 0
    /\ task = <<>>
    /\ chanIdx = <<>>
    /\ all_entries = <<>>
    /\ all_results = <<>>
    /\ cycleLog = <<>>
    /\ session = "none" /\ epc = "idle" /\ call = 0 /\ attempt = 0 /\ slept = 0
    /\ cause = NoValue /\ status_code = 0 /\ open_shells = {} /\ open_commands = {}
    /\ execLog = <<>>
    /\ ParseOff /\ SanitizeOff /\ DbOff
    /\ TxnOff
    /\ RestoreOff
    /\ RetentionOff
    /\ BackupOff
    /\ CancelOff
    /\ CredOff
    /\ HostsOff
    /\ RangeOff
    /\ WebhookOff
    /\ SearchOff
    /\ IngestOff
    /\ LimiterOff
    /\ SchemaOff

\* The wrapper is entered: attempt 1 of execute_powershell.
ExecCall ==
    /\ epc = "idle"
    /\ call < MaxCalls
    /\ call' = call + 1
    /\ attempt' = 1
    /\ slept' = 0
    /\ cause' = NoValue
    /\ status_code' = 0
    /\ epc' = "entry"
    /\ UNCHANGED <<clock, storeVars, watcherVars, collectorVars, session, open_shells,
                   open_commands, execLog, parseVars, sanitizeVars, dbVars, txnVars,
                   restoreVars, retentionVars, backupVars, cancelVars, credVars, hostVars,
                   rangeVars, webhookVars, searchVars, ingestVars, limiterVars, schemaVars>>

\* `if not self._session or not self._protocol: if not self.connect(): return None`.
\* connect() catches every exception. "ok": the test command ran with status 0;
\* "unreachable": session and protocol were built, the test command failed;
\* "no_session": building the session or the protocol raised.
ExecConnect ==
    /\ epc = "entry"
    /\ session = "none"
    /\ \E o \in {"ok", "unreachable", "no_session"} :
         /\ session' = IF o = "no_session" THEN "none" ELSE "set"
         /\ IF o = "ok"
            THEN /\ epc' = "try"
                 /\ UNCHANGED <<attempt, slept, cause, open_shells, open_commands, execLog>>
            ELSE ExecFinish("None", "connect", open_shells, open_commands, NoValue)
    /\ UNCHANGED <<clock, storeVars, watcherVars, collectorVars, call, status_code,
                   parseVars, sanitizeVars, dbVars, txnVars, restoreVars, retentionVars,
                   backupVars, cancelVars, credVars, hostVars, rangeVars, webhookVars,
                   searchVars, ingestVars, limiterVars, schemaVars>>

\* Session and protocol exist already (also after a connect() whose test
\* command failed): the connect is skipped.
ExecProceed ==
    /\ epc = "entry"
    /\ session = "set"
    /\ epc' = "try"
    /\ UNCHANGED <<clock, storeVars, watcherVars, collectorVars, session, call, attempt,
                   slept, cause, status_code, open_shells, open_commands, execLog,
                   parseVars, sanitizeVars, dbVars, txnVars, restoreVars, retentionVars,
                   backupVars, cancelVars, credVars, hostVars, rangeVars, webhookVars,
                   searchVars, ingestVars, limiterVars, schemaVars>>

\* shell_id = self._protocol.open_shell()
OpenShell ==
    /\ epc = "try"
    /\ \E ok \in BOOLEAN :
         IF ok
         THEN /\ open_shells' = open_shells \cup {call}
              /\ epc' = "shell"
              /\ UNCHANGED cause
         ELSE /\ cause' = "transport"
              /\ epc' = "except"
              /\ UNCHANGED open_shells
    /\ UNCHANGED <<clock, storeVars, watcherVars, collectorVars, session, call, attempt,
                   slept, status_code, open_commands, execLog, parseVars, sanitizeVars,
                   dbVars, txnVars, restoreVars, retentionVars, backupVars, cancelVars,
                   credVars, hostVars, rangeVars, webhookVars, searchVars, ingestVars,
                   limiterVars, schemaVars>>

\* command_id = self._protocol.run_command(shell_id, 'powershell', ['-Command', script])
RunCommand ==
    /\ epc = "shell"
    /\ \E ok \in BOOLEAN :
         IF ok
         THEN /\ open_commands' = open_commands \cup {call}
              /\ epc' = "command"
              /\ UNCHANGED cause
         ELSE /\ cause' = "transport"
              /\ epc' = "except"
              /\ UNCHANGED open_commands
    /\ UNCHANGED <<clock, storeVars, watcherVars, collectorVars, session, call, attempt,
                   slept, status_code, open_shells, execLog, parseVars, sanitizeVars,
                   dbVars, txnVars, restoreVars, retentionVars, backupVars, cancelVars,
                   credVars, hostVars, rangeVars, webhookVars, searchVars, ingestVars,
                   limiterVars, schemaVars>>

\* std_out, std_err, status_code = self._protocol.get_command_output(...)
GetCommandOutput ==
    /\ epc = "command"
    /\ \E o \in {"zero", "nonzero", "raised"} :
         IF o = "raised"
         THEN /\ cause' = "transport"
              /\ epc' = "except"
              /\ UNCHANGED status_code
         ELSE /\ status_code' = IF o = "zero" THEN 0 ELSE 1
              /\ epc' = "output"
              /\ UNCHANGED cause
    /\ UNCHANGED <<clock, storeVars, watcherVars, collectorVars, session, call, attempt,
                   slept, open_shells, open_commands, execLog, parseVars, sanitizeVars,
                   dbVars, txnVars, restoreVars, retentionVars, backupVars, cancelVars,
                   credVars, hostVars, rangeVars, webhookVars, searchVars, ingestVars,
                   limiterVars, schemaVars>>

\* cleanup_command, close_shell, then the return on status_code. Either of the
\* two calls may raise, which skips what follows it.
CleanupAndReturn ==
    /\ epc = "output"
    /\ \E o \in {"ok", "cleanup_raised", "close_raised"} :
         IF o = "ok"
         THEN IF status_code = 0
              THEN ExecFinish("output", cause, open_shells \ {call}, open_commands \ {call},
                              "zero")
              ELSE ExecFinish("None", "status", open_shells \ {call}, open_commands \ {call},
                              "nonzero")
         ELSE /\ cause' = "transport"
              /\ epc' = "except"
              /\ open_commands' = IF o = "close_raised" THEN open_commands \ {call}
                                  ELSE open_commands
              /\ UNCHANGED <<open_shells, attempt, slept, execLog>>
    /\ UNCHANGED <<clock, storeVars, watcherVars, collectorVars, session, call,
                   status_code, parseVars, sanitizeVars, dbVars, txnVars, restoreVars,
                   retentionVars, backupVars, cancelVars, credVars, hostVars, rangeVars,
                   webhookVars, searchVars, ingestVars, limiterVars, schemaVars>>

\* Fallback with the call of run_ps outside any try: what it raises leaves
\* execute_powershell.
FallbackUncaught ==
    /\ epc = "except"
    /\ \E o \in {"zero", "nonzero", "raised"} :
         ExecFinish(IF o = "zero" THEN "output"
                    ELSE IF o = "raised" THEN "raised" ELSE "None",
                    cause, open_shells, open_commands, o)
    /\ UNCHANGED <<clock, storeVars, watcherVars, collectorVars, session, call,
                   status_code, parseVars, sanitizeVars, dbVars, txnVars, restoreVars,
                   retentionVars, backupVars, cancelVars, credVars, hostVars, rangeVars,
                   webhookVars, searchVars, ingestVars, limiterVars, schemaVars>>

\* except Exception: the fallback self._session.run_ps(script), itself inside
\* try / bare except; then return None.
Fallback ==
    /\ epc = "except"
    /\ \E o \in {"zero", "nonzero", "raised"} :
         ExecFinish(IF o = "zero" THEN "output" ELSE "None", cause, open_shells,
                    open_commands, o)
    /\ UNCHANGED <<clock, storeVars, watcherVars, collectorVars, session, call,
                   status_code, parseVars, sanitizeVars, dbVars, txnVars, restoreVars,
                   retentionVars, backupVars, cancelVars, credVars, hostVars, rangeVars,
                   webhookVars, searchVars, ingestVars, limiterVars, schemaVars>>

NextExec ==
    \/ ExecCall
    \/ ExecConnect
    \/ ExecProceed
    \/ OpenShell
    \/ RunCommand
    \/ GetCommandOutput
    \/ CleanupAndReturn
    \/ Fallback

SpecExec == InitExec /\ [][NextExec]_vars

----------------------------------------------------------------------------
(* sanitize_xml: strings are sequences of code points *)

\* Longest string given to sanitize_xml.
MaxLen == 3

\* The code points strings are made of: NUL, TAB, VT, "A", DEL, NEL, NBSP,
\* a lone surrogate, U+FFFE and U+1F600.
CodePoints == {0, 9, 11, 65, 127, 133, 160, 55296, 65534, 128512}

\* The class of the first re.sub: [\x00-\x08\x0B\x0C\x0E-\x1F\x7F-\x9F].
ControlChar(c) ==
    \/ c \in 0..8
    \/ c \in {11, 12}
    \/ c \in 14..31
    \/ c \in 127..159

\* The class the second re.sub negates: [^\x09\x0A\x0D\x20-\uD7FF\uE000-\uFFFD].
KeptChar(c) ==
    \/ c \in {9, 10, 13}
    \/ c \in 32..55295
    \/ c \in 57344..65533

NotControlChar(c) == ~ControlChar(c)

\* sanitize_xml: the first re.sub deletes the control characters, the second
\* deletes everything outside the kept class.
sanitize_xml(xml_string) ==
    SelectSeq(SelectSeq(xml_string, NotControlChar), KeptChar)

Strings == UNION {[1..n -> CodePoints] : n \in 0..MaxLen}

InitSanitize ==
    /\ clock = StartTime
    /\ store = <<>>
    /\ logs_id_seq = 1
    /\ WatcherOff
    /\ CollectorOff
    /\ ExecOff /\ ParseOff /\ DbOff
    /\ raw \in Strings
    /\ once = <<>>
    /\ twice = <<>>
    /\ spc = "raw"
    /\ TxnOff
    /\ RestoreOff
    /\ RetentionOff
    /\ BackupOff
    /\ CancelOff
    /\ CredOff
    /\ HostsOff
    /\ RangeOff
    /\ WebhookOff
    /\ SearchOff
    /\ IngestOff
    /\ LimiterOff
    /\ SchemaOff

SanitizeOnce ==
    /\ spc = "raw"
    /\ once' = sanitize_xml(raw)
    /\ spc' = "once"
    /\ UNCHANGED <<clock, storeVars, watcherVars, collectorVars, execVars, parseVars, dbVars,
                   raw, twice, txnVars, restoreVars, retentionVars, backupVars, cancelVars,
                   credVars, hostVars, rangeVars, webhookVars, searchVars, ingestVars,
                   limiterVars, schemaVars>>

SanitizeTwice ==
    /\ spc = "once"
    /\ twice' = sanitize_xml(once)
    /\ spc' = "twice"
    /\ UNCHANGED <<clock, storeVars, watcherVars, collectorVars, execVars, parseVars, dbVars,
                   raw, once, txnVars, restoreVars, retentionVars, backupVars, cancelVars,
                   credVars, hostVars, rangeVars, webhookVars, searchVars, ingestVars,
                   limiterVars, schemaVars>>

NextSanitize ==
    \/ SanitizeOnce
    \/ SanitizeTwice

SpecSanitize == InitSanitize /\ [][NextSanitize]_vars

----------------------------------------------------------------------------
(* The store under maintenance: insert_logs, delete_old_logs, export_to_parquet
   and import_from_parquet of DatabaseManager *)

\* Calls of insert_logs explored.
MaxInserts == 2

\* Entries in one batch given to insert_logs.
MaxBatch == 2

\* database.retention_days, the argument of delete_old_logs (90 by default).
RetentionDays == 1

\* INTERVAL '1' DAY, in minutes.
Day == 1440

\* CURRENT_TIMESTAMP while the store is maintained.
StoreTime == StartTime + RetentionDays * Day

\* The instant of an event older than the retention period.
OldTime == StartTime - 1

\* A LogEntry as the parser emits it, for an event at instant ts.
StoreEntry(ts) ==
    LogEntryOf(Fragment("nested", ts, "4625", "2"), "10.0.0.1", "Security")

\* The batches given to insert_logs: non-empty lists of entries, old and recent.
Batches ==
    UNION {[1..n -> {StoreEntry(OldTime), StoreEntry(StoreTime)}] : n \in 1..MaxBatch}

\* A Parquet file written by export_to_parquet of another store of the program:
\* its rows carry the ids 1 and 2 that store gave them.
ExportedElsewhere ==
    <<LogRow(1, StoreEntry(OldTime)), LogRow(2, StoreEntry(StoreTime))>>

Ids(rows) == {rows[i].id : i \in DOMAIN rows}

\* SELECT max(id) FROM logs, 0 for an empty table.
MaxId(rows) ==
    IF rows = <<>> THEN 0
    ELSE CHOOSE m \in Ids(rows) : \A n \in Ids(rows) : n <= m

\* timestamp <= CURRENT_TIMESTAMP - INTERVAL '{days}' DAY
IsOldInclusive(row, days) == row.timestamp <= clock - days * Day

\* timestamp < CURRENT_TIMESTAMP - INTERVAL '{days}' DAY
IsOld(row, days) == row.timestamp < clock - days * Day

\* The rows DELETE FROM logs WHERE ... leaves in the table.
RowsKept(rows, days) ==
    LET Kept(row) == ~IsOld(row, days) IN SelectSeq(rows, Kept)

\* What one call of insert_logs did.
InsertRecord(batch, result, rows_after, assigned) ==
    [size |-> Len(batch), result |-> result,
     rows_before |-> Len(store), rows_after |-> Len(rows_after),
     max_before |-> MaxId(store), max_after |-> MaxId(rows_after),
     ids |-> assigned, freed_before |-> freed]

\* A fresh store after initialize_schema; a Parquet file of another store may
\* lie next to it.
InitStore ==
    /\ clock = StoreTime
    /\ store = <<>>
    /\ logs_id_seq = 1
    /\ WatcherOff
    /\ CollectorOff
    /\ ExecOff /\ ParseOff /\ SanitizeOff
    /\ parquet \in {<<>>, ExportedElsewhere}
    /\ freed = {}
    /\ insertLog = <<>>
    /\ TxnOff
    /\ restored = <<>>
    /\ rpc = "empty"
    /\ RetentionOff
    /\ BackupOff
    /\ CancelOff
    /\ CredOff
    /\ HostsOff
    /\ RangeOff
    /\ WebhookOff
    /\ SearchOff
    /\ IngestOff
    /\ LimiterOff
    /\ SchemaOff

\* insert_logs(batch): every id drawn from the sequence is free, the INSERT
\* and the commit go through.
StoreInsert ==
    /\ Len(insertLog) < MaxInserts
    /\ \E batch \in Batches :
         LET rows == InsertedRows(batch, logs_id_seq) IN
         /\ Ids(rows) \cap Ids(store) = {}
         /\ insert_logs(batch)
         /\ insertLog' = Append(insertLog,
                                InsertRecord(batch, "ok", store \o rows, Ids(rows)))
    /\ UNCHANGED <<clock, watcherVars, collectorVars, execVars, parseVars, sanitizeVars,
                   parquet, freed, txnVars, restoreVars, retentionVars, backupVars, cancelVars,
                   credVars, hostVars, rangeVars, webhookVars, searchVars, ingestVars,
                   limiterVars, schemaVars>>

\* insert_logs(batch): an id drawn from the sequence is the id of a row of the
\* table, the INSERT breaks the PRIMARY KEY constraint, the except branch logs
\* and raises. No row is added; the values already drawn from the sequence may
\* or may not be given back.
StoreInsertFails ==
    /\ Len(insertLog) < MaxInserts
    /\ \E batch \in Batches :
         /\ Ids(InsertedRows(batch, logs_id_seq)) \cap Ids(store) # {}
         /\ logs_id_seq' \in logs_id_seq..(logs_id_seq + Len(batch))
         /\ insertLog' = Append(insertLog, InsertRecord(batch, "raised", store, {}))
    /\ UNCHANGED <<clock, store, watcherVars, collectorVars, execVars, parseVars,
                   sanitizeVars, parquet, freed, txnVars, restoreVars, retentionVars,
                   backupVars, cancelVars, credVars, hostVars, rangeVars, webhookVars,
                   searchVars, ingestVars, limiterVars, schemaVars>>

\* Calls of delete_old_logs explored.
MaxDeletes == 2

\* delete_old_logs(days): DELETE FROM logs WHERE timestamp < now - days, commit,
\* and return the count the DELETE reports.
DeleteOldLogs ==
    /\ Len(deleteLog) < MaxDeletes
    /\ \E days \in 0..RetentionDays :
         /\ store' = RowsKept(store, days)
         /\ deleteLog' = Append(deleteLog,
                [days |-> days, cutoff |-> clock - days * Day, before |-> store,
                 after |-> store', deleted |-> Len(store) - Len(store')])
    /\ freed' = freed \cup (Ids(store) \ Ids(store'))
    /\ UNCHANGED <<clock, logs_id_seq, watcherVars, collectorVars, execVars, parseVars,
                   sanitizeVars, parquet, insertLog, txnVars, restoreVars, backupVars,
                   cancelVars, credVars, hostVars, rangeVars, webhookVars, searchVars,
                   ingestVars, limiterVars, schemaVars>>

\* export_to_parquet(path): COPY (SELECT * FROM logs) TO path; the file holds
\* every column of every row, the id included.
ExportParquet ==
    /\ parquet' = store
    /\ UNCHANGED <<clock, storeVars, watcherVars, collectorVars, execVars, parseVars,
                   sanitizeVars, freed, insertLog, txnVars, restoreVars, retentionVars,
                   backupVars, cancelVars, credVars, hostVars, rangeVars, webhookVars,
                   searchVars, ingestVars, limiterVars, schemaVars>>

\* import_from_parquet(path): INSERT INTO logs SELECT * FROM read_parquet(path).
\* The rows come in with the ids of the file; the sequence is not touched.
ImportParquet ==
    /\ parquet # <<>>
    /\ Ids(parquet) \cap Ids(store) = {}
    /\ store' = store \o parquet
    /\ imported' = TRUE
    /\ UNCHANGED <<clock, logs_id_seq, watcherVars, collectorVars, execVars, parseVars,
                   sanitizeVars, parquet, freed, insertLog, txnVars, restoreVars,
                   retentionVars, backupVars, cancelVars, credVars, hostVars, rangeVars,
                   webhookVars, searchVars, ingestVars, limiterVars, schema_runs>>

\* import_from_parquet(path) with an id of the file already in the table: the
\* INSERT breaks the PRIMARY KEY constraint and the except branch raises.
ImportParquetFails ==
    /\ Ids(parquet) \cap Ids(store) # {}
    /\ UNCHANGED vars

\* import_from_parquet into the second store, keeping one row of each content.
RestoreImportDistinct ==
    /\ rpc = "empty"
    /\ parquet # <<>>
    /\ restored' = restored \o
           SeqOfSet({parquet[i] : i \in {k \in DOMAIN parquet :
               \A j \in 1..(k - 1) : [parquet[j] EXCEPT !.id = 0] # [parquet[k] EXCEPT !.id = 0]}})
    /\ rpc' = "imported"
    /\ UNCHANGED <<clock, storeVars, watcherVars, collectorVars, execVars, parseVars,
                   sanitizeVars, dbVars, txnVars, retentionVars, backupVars, cancelVars,
                   credVars, hostVars, rangeVars, webhookVars, searchVars, ingestVars,
                   limiterVars, schemaVars>>

\* import_from_parquet(path) on a second store whose table is empty:
\* INSERT INTO logs SELECT * FROM read_parquet(path) puts every row of the file,
\* column by column, into the table.
RestoreImport ==
    /\ rpc = "empty"
    /\ parquet # <<>>
    /\ restored' = restored \o parquet
    /\ rpc' = "imported"
    /\ UNCHANGED <<clock, storeVars, watcherVars, collectorVars, execVars, parseVars,
                   sanitizeVars, dbVars, txnVars, retentionVars, backupVars, cancelVars,
                   credVars, hostVars, rangeVars, webhookVars, searchVars, ingestVars,
                   limiterVars, schemaVars>>

\* New DatabaseManager objects on the file of the store explored.
MaxSchemaRuns == 1

\* initialize_schema on the existing file, as DatabaseManager.__init__ runs it:
\* CREATE TABLE / SEQUENCE / INDEX IF NOT EXISTS find the table, the sequence
\* and the indexes and do nothing.
InitializeSchema ==
    /\ schema_runs < MaxSchemaRuns
    /\ schema_runs' = schema_runs + 1
    /\ UNCHANGED <<clock, storeVars, watcherVars, collectorVars, execVars, parseVars,
                   sanitizeVars, dbVars, txnVars, restoreVars, retentionVars, backupVars,
                   cancelVars, credVars, hostVars, rangeVars, webhookVars, searchVars,
                   ingestVars, limiterVars, imported>>

NextStore ==
    \/ InitializeSchema
    \/ StoreInsert
    \/ StoreInsertFails
    \/ DeleteOldLogs
    \/ ExportParquet
    \/ ImportParquet
    \/ ImportParquetFails
    \/ RestoreImport

SpecStore == InitStore /\ [][NextStore]_vars

----------------------------------------------------------------------------
(* insert_logs of one thread next to execute_query of another thread. Each
   thread has its own connection to the same database (DatabaseManager.connection),
   and a statement run outside BEGIN .. COMMIT is one transaction of DuckDB. *)

\* Calls of execute_query by the reader explored.
MaxReads == 2

\* A row another store exported and import_from_parquet brought in: its id 2
\* lies ahead of the sequence of this store.
ImportedRow ==
    [LogRow(2, StoreEntry(StoreTime)) EXCEPT !.computer = "10.0.0.2"]

InitTxn ==
    /\ clock = StoreTime
    /\ store \in {<<>>, <<ImportedRow>>}
    /\ logs_id_seq = 1
    /\ WatcherOff
    /\ CollectorOff
    /\ ExecOff /\ ParseOff /\ SanitizeOff /\ DbOff
    /\ txnBatch = <<>>
    /\ pending = <<>>
    /\ tpc = "idle"
    /\ readLog = <<>>
    /\ txnLog = <<>>
    /\ RestoreOff
    /\ RetentionOff
    /\ BackupOff
    /\ CancelOff
    /\ CredOff
    /\ HostsOff
    /\ RangeOff
    /\ WebhookOff
    /\ SearchOff
    /\ IngestOff
    /\ LimiterOff
    /\ SchemaOff

\* What one call of insert_logs next to the reader did.
TxnRecord(result, rows_after) ==
    [result |-> result, batch |-> txnBatch, before |-> store, after |-> rows_after]

\* insert_logs(batch) up to connection.execute(insert_sql): the DataFrame is
\* registered and the INSERT starts; nextval gives the rows their ids.
InsertStart ==
    /\ tpc = "idle"
    /\ Len(txnLog) < MaxInserts
    /\ \E batch \in Batches : txnBatch' = InsertedRows(batch, logs_id_seq)
    /\ pending' = <<>>
    /\ tpc' = "insert"
    /\ UNCHANGED <<clock, storeVars, watcherVars, collectorVars, execVars, parseVars,
                   sanitizeVars, dbVars, readLog, txnLog, restoreVars, retentionVars,
                   backupVars, cancelVars, credVars, hostVars, rangeVars, webhookVars,
                   searchVars, ingestVars, limiterVars, schemaVars>>

\* The INSERT writes its next row into the table with a row-by-row commit: the
\* row is in the table at once.
InsertRowAutocommit ==
    /\ tpc = "insert"
    /\ Len(pending) < Len(txnBatch)
    /\ txnBatch[Len(pending) + 1].id \notin Ids(store)
    /\ pending' = Append(pending, txnBatch[Len(pending) + 1])
    /\ store' = Append(store, txnBatch[Len(pending) + 1])
    /\ UNCHANGED <<clock, logs_id_seq, watcherVars, collectorVars, execVars, parseVars,
                   sanitizeVars, dbVars, txnBatch, tpc, readLog, txnLog, restoreVars,
                   retentionVars, backupVars, cancelVars, credVars, hostVars, rangeVars,
                   webhookVars, searchVars, ingestVars, limiterVars, schemaVars>>

\* The INSERT writes its next row: the row belongs to the transaction of the
\* statement and is not in the table other connections read.
InsertRow ==
    /\ tpc = "insert"
    /\ Len(pending) < Len(txnBatch)
    /\ txnBatch[Len(pending) + 1].id \notin Ids(store)
    /\ pending' = Append(pending, txnBatch[Len(pending) + 1])
    /\ UNCHANGED <<clock, storeVars, watcherVars, collectorVars, execVars, parseVars,
                   sanitizeVars, dbVars, txnBatch, tpc, readLog, txnLog, restoreVars,
                   retentionVars, backupVars, cancelVars, credVars, hostVars, rangeVars,
                   webhookVars, searchVars, ingestVars, limiterVars, schemaVars>>

\* The INSERT has written every row: the statement commits, the rows are in
\* the table, insert_logs unregisters the DataFrame and returns.
InsertCommit ==
    /\ tpc = "insert"
    /\ Len(pending) = Len(txnBatch)
    /\ store' = store \o pending
    /\ logs_id_seq' = logs_id_seq + Len(txnBatch)
    /\ txnLog' = Append(txnLog, TxnRecord("ok", store \o pending))
    /\ txnBatch' = <<>>
    /\ pending' = <<>>
    /\ tpc' = "idle"
    /\ UNCHANGED <<clock, watcherVars, collectorVars, execVars, parseVars, sanitizeVars,
                   dbVars, readLog, restoreVars, retentionVars, backupVars, cancelVars,
                   credVars, hostVars, rangeVars, webhookVars, searchVars, ingestVars,
                   limiterVars, schemaVars>>

\* The next row has the id of a row of the table: the statement breaks the
\* PRIMARY KEY constraint, its transaction is rolled back with the rows it
\* wrote, and the except branch of insert_logs raises.
InsertAbort ==
    /\ tpc = "insert"
    /\ Len(pending) < Len(txnBatch)
    /\ txnBatch[Len(pending) + 1].id \in Ids(store)
    /\ logs_id_seq' \in logs_id_seq..(logs_id_seq + Len(txnBatch))
    /\ txnLog' = Append(txnLog, TxnRecord("raised", store))
    /\ txnBatch' = <<>>
    /\ pending' = <<>>
    /\ tpc' = "idle"
    /\ UNCHANGED <<clock, store, watcherVars, collectorVars, execVars, parseVars,
                   sanitizeVars, dbVars, readLog, restoreVars, retentionVars, backupVars,
                   cancelVars, credVars, hostVars, rangeVars, webhookVars, searchVars,
                   ingestVars, limiterVars, schemaVars>>

\* execute_query("SELECT * FROM logs") on the connection of another thread,
\* such as the query of a watcher tick: it reads the committed table.
ReaderQuery ==
    /\ tpc \in {"idle", "insert"}
    /\ Len(readLog) < MaxReads
    /\ readLog' = Append(readLog,
                         [seen |-> Range(store), during |-> tpc,
                          batch |-> IF tpc = "insert" THEN txnBatch
                                    ELSE IF txnLog = <<>> THEN <<>>
                                    ELSE txnLog[Len(txnLog)].batch,
                          result |-> IF tpc = "insert" \/ txnLog = <<>> THEN NoValue
                                     ELSE txnLog[Len(txnLog)].result])
    /\ UNCHANGED <<clock, storeVars, watcherVars, collectorVars, execVars, parseVars,
                   sanitizeVars, dbVars, txnBatch, pending, tpc, txnLog, restoreVars,
                   retentionVars, backupVars, cancelVars, credVars, hostVars, rangeVars,
                   webhookVars, searchVars, ingestVars, limiterVars, schemaVars>>

NextTxn ==
    \/ InsertStart
    \/ InsertRow
    \/ InsertCommit
    \/ InsertAbort
    \/ ReaderQuery

SpecTxn == InitTxn /\ [][NextTxn]_vars

----------------------------------------------------------------------------
(* create_backup of one thread next to the other threads that use the same
   DatabaseManager *)

\* Inserts and queries explored.
MaxOps == 3

\* Calls of create_backup explored.
MaxBackups == 2

\* The threads that use the DatabaseManager.
Threads == {"t1", "t2"}

InitBackup ==
    /\ clock = StartTime
    /\ store = <<>>
    /\ logs_id_seq = 1
    /\ WatcherOff
    /\ CollectorOff
    /\ ExecOff /\ ParseOff /\ SanitizeOff /\ DbOff /\ TxnOff /\ RestoreOff /\ RetentionOff
    /\ conn = [t \in Threads |-> "none"]
    /\ bpc = "idle"
    /\ backupBy = NoValue
    /\ opsLog = <<>>
    /\ backups = 0
    /\ CancelOff
    /\ CredOff
    /\ HostsOff
    /\ RangeOff
    /\ WebhookOff
    /\ SearchOff
    /\ IngestOff
    /\ LimiterOff
    /\ SchemaOff

\* Thread t runs insert_logs or execute_query: self.connection opens the
\* connection of the thread when it has none, and the statement runs. The
\* thread inside create_backup is busy with the copy.
UseStore(t) ==
    /\ bpc \in {"idle", "copying"}
    /\ t # backupBy
    /\ Len(opsLog) < MaxOps
    /\ conn' = [conn EXCEPT ![t] = "open"]
    /\ opsLog' = Append(opsLog, [thread |-> t, during |-> bpc, after |-> backups])
    /\ UNCHANGED <<clock, storeVars, watcherVars, collectorVars, execVars, parseVars,
                   sanitizeVars, dbVars, txnVars, restoreVars, retentionVars,
                   bpc, backupBy, backups, cancelVars, credVars, hostVars, rangeVars,
                   webhookVars, searchVars, ingestVars, limiterVars, schemaVars>>

\* create_backup of thread t up to shutil.copy2: self.close() closes the
\* connection of self._local, the connection of the calling thread.
BackupBegin(t) ==
    /\ bpc = "idle"
    /\ backups < MaxBackups
    /\ conn' = [conn EXCEPT ![t] = "none"]
    /\ bpc' = "copying"
    /\ backupBy' = t
    /\ UNCHANGED <<clock, storeVars, watcherVars, collectorVars, execVars, parseVars,
                   sanitizeVars, dbVars, txnVars, restoreVars, retentionVars,
                   opsLog, backups, cancelVars, credVars, hostVars, rangeVars, webhookVars,
                   searchVars, ingestVars, limiterVars, schemaVars>>

\* shutil.copy2 returns or raises; create_backup logs and returns or raises.
\* Nothing re-opens a connection here: self.connection does on its next use.
BackupEnd ==
    /\ bpc = "copying"
    /\ bpc' = "idle"
    /\ backupBy' = NoValue
    /\ backups' = backups + 1
    /\ UNCHANGED <<clock, storeVars, watcherVars, collectorVars, execVars, parseVars,
                   sanitizeVars, dbVars, txnVars, restoreVars, retentionVars,
                   conn, opsLog, cancelVars, credVars, hostVars, rangeVars, webhookVars,
                   searchVars, ingestVars, limiterVars, schemaVars>>

NextBackup ==
    \/ \E t \in Threads : UseStore(t)
    \/ \E t \in Threads : BackupBegin(t)
    \/ BackupEnd

SpecBackup == InitBackup /\ [][NextBackup]_vars

----------------------------------------------------------------------------
(* ConfigManager.get_credentials *)

\* A source holds a value or not (None for the keyring and the environment, a
\* missing key for the dict of the config entry).
Held(v) == {NoValue, v}

\* What the `credentials` key of the target's config entry can be: absent, or
\* a dict with or without each of the two keys.
ConfigCredentials ==
    {[present |-> FALSE, username |-> NoValue, password |-> NoValue]} \cup
    [present : {TRUE}, username : Held("cfg_user"), password : Held("cfg_pass")]

CredentialSources ==
    [keyring_username : Held("kr_user"),   keyring_password : Held("kr_pass"),
     env_username : Held("env_user"),      env_password : Held("env_pass"),
     config : ConfigCredentials,
     default_username : Held("def_user"),  default_password : Held("def_pass")]

\* `if username and password`
Both(u, p) == u # NoValue /\ p # NoValue

Returned(u, p) == [kind |-> "return", value |-> [username |-> u, password |-> p]]

\* get_credentials(target) for a target whose sources hold src.
get_credentials(src) ==
    IF Both(src.keyring_username, src.keyring_password)
    THEN Returned(src.keyring_username, src.keyring_password)
    ELSE IF Both(src.env_username, src.env_password)
    THEN Returned(src.env_username, src.env_password)
    ELSE IF src.config.present
    THEN Returned(src.config.username, src.config.password)
    ELSE IF Both(src.default_username, src.default_password)
    THEN Returned(src.default_username, src.default_password)
    ELSE [kind |-> "raise", value |-> "ValueError"]

InitCred ==
    /\ clock = StartTime
    /\ store = <<>>
    /\ logs_id_seq = 1
    /\ WatcherOff
    /\ CollectorOff
    /\ ExecOff /\ ParseOff /\ SanitizeOff /\ DbOff /\ TxnOff /\ RestoreOff /\ RetentionOff
    /\ BackupOff /\ CancelOff
    /\ sources \in CredentialSources
    /\ credentials = NoValue
    /\ kpc = "input"
    /\ HostsOff
    /\ RangeOff
    /\ WebhookOff
    /\ SearchOff
    /\ IngestOff
    /\ LimiterOff
    /\ SchemaOff

GetCredentials ==
    /\ kpc = "input"
    /\ credentials' = get_credentials(sources)
    /\ kpc' = "done"
    /\ UNCHANGED <<clock, storeVars, watcherVars, collectorVars, execVars, parseVars,
                   sanitizeVars, dbVars, txnVars, restoreVars, retentionVars, backupVars,
                   cancelVars, sources, hostVars, rangeVars, webhookVars, searchVars,
                   ingestVars, limiterVars, schemaVars>>

NextCred == GetCredentials

SpecCred == InitCred /\ [][NextCred]_vars

----------------------------------------------------------------------------
(* LogAnalyzer._parse_time_range: texts are sequences of characters *)

\* Largest number written into a time range.
MaxHours == 24

Digits == <<"0", "1", "2", "3", "4", "5", "6", "7", "8", "9">>

Whitespace == {" ", "\t", "\n"}

\* The decimal numeral of n, as a --last or --period option is typed.
RECURSIVE Numeral(_)
Numeral(n) ==
    IF n < 10 THEN <<Digits[n + 1]>>
    ELSE Numeral(n \div 10) \o <<Digits[(n % 10) + 1]>>

\* str.lower() for the letters that occur.
LowerChar(c) ==
    CASE c = "H" -> "h"
      [] c = "D" -> "d"
      [] c = "W" -> "w"
      [] c = "M" -> "m"
      [] OTHER -> c

lower(text) == [i \in DOMAIN text |-> LowerChar(text[i])]

\* str.strip(): leading and trailing whitespace removed.
RECURSIVE lstrip(_)
lstrip(text) ==
    IF text # <<>> /\ Head(text) \in Whitespace THEN lstrip(Tail(text)) ELSE text

RECURSIVE rstrip(_)
rstrip(text) ==
    IF text # <<>> /\ text[Len(text)] \in Whitespace
    THEN rstrip(SubSeq(text, 1, Len(text) - 1)) ELSE text

strip(text) == rstrip(lstrip(text))

IsDigit(c) == \E d \in DOMAIN Digits : Digits[d] = c

DigitValue(c) == (CHOOSE d \in DOMAIN Digits : Digits[d] = c) - 1

RECURSIVE DecimalValue(_)
DecimalValue(text) ==
    IF text = <<>> THEN 0
    ELSE 10 * DecimalValue(SubSeq(text, 1, Len(text) - 1)) + DigitValue(text[Len(text)])

AllDigits(text) == text # <<>> /\ \A i \in DOMAIN text : IsDigit(text[i])

\* int(text): whitespace around the numeral is ignored, a sign is taken, and
\* anything else raises ValueError.
int(text) ==
    LET t == strip(text) IN
    IF AllDigits(t) THEN [kind |-> "return", value |-> DecimalValue(t)]
    ELSE IF t # <<>> /\ Head(t) = "-" /\ AllDigits(Tail(t))
    THEN [kind |-> "return", value |-> 0 - DecimalValue(Tail(t))]
    ELSE IF t # <<>> /\ Head(t) = "+" /\ AllDigits(Tail(t))
    THEN [kind |-> "return", value |-> DecimalValue(Tail(t))]
    ELSE [kind |-> "raise", value |-> 0]

endswith(text, c) == text # <<>> /\ text[Len(text)] = c

\* int(...) * factor, the ValueError of int passing through.
Times(parsed_int, factor) ==
    IF parsed_int.kind = "return"
    THEN [kind |-> "return", value |-> parsed_int.value * factor]
    ELSE parsed_int

\* The branches of _parse_time_range on the text t.
RangeBranches(t) ==
    IF endswith(t, "h") THEN Times(int(SubSeq(t, 1, Len(t) - 1)), 1)
    ELSE IF endswith(t, "d") THEN Times(int(SubSeq(t, 1, Len(t) - 1)), 24)
    ELSE IF endswith(t, "w") THEN Times(int(SubSeq(t, 1, Len(t) - 1)), 24 * 7)
    ELSE int(t)

\* _parse_time_range without the strip() of its first line.
_parse_time_range_unstripped(time_range) == RangeBranches(lower(time_range))

\* _parse_time_range(time_range)
_parse_time_range(time_range) == RangeBranches(strip(lower(time_range)))

\* The texts of the grammar: a numeral, an optional unit in either case,
\* whitespace around it or not.
GrammarInputs ==
    { [n |-> n, unit |-> LowerChar(u),
       text |-> lead \o Numeral(n) \o (IF u = "" THEN <<>> ELSE <<u>>) \o trail] :
        n \in 0..MaxHours,
        u \in {"", "h", "H", "d", "D", "w", "W"},
        lead \in {<<>>, <<" ">>},
        trail \in {<<>>, <<" ">>, <<"\n">>} }

\* Texts outside the grammar.
OtherInputs ==
    { [n |-> 0, unit |-> "outside", text |-> t] :
        t \in {<<>>, <<"h">>, <<"2", "m">>, <<"2", "M">>, <<"-", "1", "h">>,
               <<"2", " ", "h">>, <<"1", ".", "5", "h">>} }

InitRange ==
    /\ clock = StartTime
    /\ store = <<>>
    /\ logs_id_seq = 1
    /\ WatcherOff
    /\ CollectorOff
    /\ ExecOff /\ ParseOff /\ SanitizeOff /\ DbOff /\ TxnOff /\ RestoreOff /\ RetentionOff
    /\ BackupOff /\ CancelOff /\ CredOff /\ HostsOff
    /\ \E in \in GrammarInputs \cup OtherInputs :
         /\ range_of = [n |-> in.n, unit |-> in.unit]
         /\ range_text = in.text
    /\ hours = NoValue
    /\ hpc = "input"
    /\ WebhookOff
    /\ SearchOff
    /\ IngestOff
    /\ LimiterOff
    /\ SchemaOff

ParseTimeRange ==
    /\ hpc = "input"
    /\ hours' = _parse_time_range(range_text)
    /\ hpc' = "done"
    /\ UNCHANGED <<clock, storeVars, watcherVars, collectorVars, execVars, parseVars,
                   sanitizeVars, dbVars, txnVars, restoreVars, retentionVars, backupVars,
                   cancelVars, credVars, hostVars, range_of, range_text, webhookVars,
                   searchVars, ingestVars, limiterVars, schemaVars>>

NextRange == ParseTimeRange

SpecRange == InitRange /\ [][NextRange]_vars

----------------------------------------------------------------------------
(* send_webhook, one call *)

RequestTimeout == 1   \* the POST does not finish within ClientTimeout(total=10)

\* What session.post meets: an HTTP status, a transport error, or the timeout.
WebhookResponses == WebhookStatuses \cup {204, 301, 404, RequestTimeout}

\* The webhook_type values: the flavors in some spellings, another string, and
\* None, which action.get('type_hint', 'slack') gives for `type_hint: null`.
WebhookTypes == {"discord", "Discord", "DISCORD", "slack", "Slack", "teams", NoValue}

\* send_webhook(url, message, webhook_type) with the POST meeting `response`.
\* webhook_type.lower() stands before the try.
send_webhook(url, message, webhook_type, response) ==
    IF webhook_type = NoValue
    THEN [kind |-> "raise", value |-> FALSE, payload |-> NoValue]
    ELSE [kind |-> "return",
          value |-> IF response \in {TransportError, RequestTimeout} THEN FALSE
                    ELSE SendWebhookResult(response),
          payload |-> Payload(webhook_type, message)]

InitWebhook ==
    /\ clock = StartTime
    /\ store = <<>>
    /\ logs_id_seq = 1
    /\ WatcherOff
    /\ CollectorOff
    /\ ExecOff /\ ParseOff /\ SanitizeOff /\ DbOff /\ TxnOff /\ RestoreOff /\ RetentionOff
    /\ BackupOff /\ CancelOff /\ CredOff /\ HostsOff /\ RangeOff
    /\ request \in [url : {"https://hooks.example/a"}, message : {"", "Alert: Failed logins"},
                    webhook_type : WebhookTypes, response : WebhookResponses]
    /\ sent = NoValue
    /\ npc = "input"
    /\ SearchOff
    /\ IngestOff
    /\ LimiterOff
    /\ SchemaOff

SendWebhook ==
    /\ npc = "input"
    /\ sent' = send_webhook(request.url, request.message, request.webhook_type,
                               request.response)
    /\ npc' = "done"
    /\ UNCHANGED <<clock, storeVars, watcherVars, collectorVars, execVars, parseVars,
                   sanitizeVars, dbVars, txnVars, restoreVars, retentionVars, backupVars,
                   cancelVars, credVars, hostVars, rangeVars, request, searchVars, ingestVars,
                   limiterVars, schemaVars>>

NextWebhook == SendWebhook

SpecWebhook == InitWebhook /\ [][NextWebhook]_vars

----------------------------------------------------------------------------
(* LogAnalyzer.search_logs, one call on a store that holds rows *)

MaxLimit == 2         \* the largest `limit` handed to search_logs

\* An optional argument: left at its default None, or given.
None == [present |-> FALSE, value |-> 0]
Given(v) == [present |-> TRUE, value |-> v]

\* `if event_id:` is true for a number other than 0, `if severity:` and
\* `if host:` for a string that is not empty; None is false in all three.
TruthyInt(arg) == arg.present /\ arg.value # 0
TruthyText(arg) == arg.present /\ arg.value # <<>>

\* computer LIKE '%host%' for a host without wildcard characters.
Like(text, part) ==
    \E i \in 0..(Len(text) - Len(part)) : SubSeq(text, i + 1, i + Len(part)) = part

\* The conditions search_logs joins with AND, on one row, for the look-back
\* `back` (in hours) that _parse_time_range gave.
SearchConditions(row, event_id, severity, host, back) ==
    /\ row.timestamp >= clock - back * Hour
    /\ TruthyInt(event_id) => row.event_id = event_id.value
    /\ TruthyText(severity) => lower(row.level) = lower(severity.value)
    /\ TruthyText(host) => Like(row.computer, host.value)

\* The columns of the SELECT list.
SearchColumns(row) ==
    [timestamp |-> row.timestamp, computer |-> row.computer, log_name |-> row.log_name,
     event_id |-> row.event_id, level |-> row.level]

\* ORDER BY timestamp DESC LIMIT limit over the rows `picked` (positions in
\* table logs): rows of one timestamp come in any order.
OrderedLimited(picked, limit) ==
    LET n == Min({limit, Cardinality(picked)})
        newest == { o \in Orderings(picked) :
                      \A i, j \in DOMAIN o :
                          i < j => store[o[i]].timestamp >= store[o[j]].timestamp }
    IN  { [k \in 1..n |-> SearchColumns(store[o[k]])] : o \in newest }

\* search_logs(event_id, severity, host, time_range, limit): the results the
\* query may give, or the ValueError of _parse_time_range.
search_logs(event_id, severity, host, time_range, limit) ==
    LET back == _parse_time_range(time_range) IN
    IF back.kind = "raise"
    THEN { [kind |-> "raise", rows |-> <<>>] }
    ELSE LET picked == { i \in DOMAIN store :
                           SearchConditions(store[i], event_id, severity, host,
                                            back.value) }
         IN  { [kind |-> "return", rows |-> r] : r \in OrderedLimited(picked, limit) }

\* The time of the search, and the rows a store under search may hold: two
\* event ids, 0 among them, two levels, two computers, inside and outside the
\* last hour.
SearchTime == StartTime + 2 * Hour

SearchRows ==
    [timestamp : {SearchTime - 30, SearchTime - 90},
     computer : {<<"d", "c", "1">>, <<"w", "e", "b">>},
     log_name : {"Security"},
     event_id : {0, 4625},
     level : {<<"E", "r", "r", "o", "r">>, <<"I", "n", "f", "o">>}]

SearchArguments ==
    [event_id : {None, Given(0), Given(4625)},
     severity : {None, Given(<<>>), Given(<<"E", "R", "R", "O", "R">>)},
     host : {None, Given(<<"d", "c">>)},
     time_range : {<<"1", "h">>, <<"2", "h">>, <<"1", "m">>},
     limit : 1..MaxLimit]

InitSearch ==
    /\ clock = SearchTime
    /\ \E n \in 0..MaxRows : \E entries \in [1..n -> SearchRows] :
         /\ store = InsertedRows(entries, 1)
         /\ logs_id_seq = n + 1
    /\ WatcherOff
    /\ CollectorOff
    /\ ExecOff /\ ParseOff /\ SanitizeOff /\ DbOff /\ TxnOff /\ RestoreOff /\ RetentionOff
    /\ BackupOff /\ CancelOff /\ CredOff /\ HostsOff /\ RangeOff /\ WebhookOff
    /\ search \in SearchArguments
    /\ hits = NoValue
    /\ qpc = "input"
    /\ IngestOff
    /\ LimiterOff
    /\ SchemaOff

SearchLogs ==
    /\ qpc = "input"
    /\ hits' \in search_logs(search.event_id, search.severity, search.host,
                             search.time_range, search.limit)
    /\ qpc' = "done"
    /\ UNCHANGED <<clock, storeVars, watcherVars, collectorVars, execVars, parseVars,
                   sanitizeVars, dbVars, txnVars, restoreVars, retentionVars, backupVars,
                   cancelVars, credVars, hostVars, rangeVars, webhookVars, search, ingestVars,
                   limiterVars, schemaVars>>

NextSearch == SearchLogs

SpecSearch == InitSearch /\ [][NextSearch]_vars

----------------------------------------------------------------------------
(* RateLimiter.acquire, called by several tasks of one event loop *)

Calls == 2            \* RateLimiter(calls, period): calls allowed
Period == 2           \* RateLimiter(calls, period): the period, in units of the clock
MaxAcquires == 4      \* acquire() calls explored
MaxWait == 4          \* units of time explored

LimiterTasks == {"t1", "t2", "t3"}

\* [ts for ts in self.timestamps if now - ts < self.period]
RemoveOld(stamps, t) == SelectSeq(stamps, LAMBDA ts : t - ts < Period)

\* sleep_time = self.period - (now - self.timestamps[0])
SleepTime(stamps, t) == Period - (t - stamps[1])

InitLimiter ==
    /\ clock = StartTime
    /\ store = <<>>
    /\ logs_id_seq = 1
    /\ WatcherOff
    /\ CollectorOff
    /\ ExecOff /\ ParseOff /\ SanitizeOff /\ DbOff /\ TxnOff /\ RestoreOff /\ RetentionOff
    /\ BackupOff /\ CancelOff /\ CredOff /\ HostsOff /\ RangeOff /\ WebhookOff /\ SearchOff
    /\ IngestOff
    /\ timestamps = <<>>
    /\ acquiring = [t \in LimiterTasks |-> [pc |-> "out", wake |-> 0]]
    /\ acquired = <<>>
    /\ overlapped = FALSE
    /\ SchemaOff

\* Task t calls acquire(): the body up to its await, or to its end when it
\* does not sleep. No other task runs in between.
AcquireEnter(t) ==
    /\ acquiring # <<>>
    /\ acquiring[t].pc = "out"
    /\ Len(acquired) + Cardinality({u \in LimiterTasks : acquiring[u].pc = "sleep"})
           < MaxAcquires
    /\ overlapped' = (overlapped \/ \E u \in LimiterTasks : acquiring[u].pc = "sleep")
    /\ LET kept == RemoveOld(timestamps, clock) IN
       IF Len(kept) >= Calls /\ SleepTime(kept, clock) > 0
       THEN /\ timestamps' = kept
            /\ acquiring' = [acquiring EXCEPT
                   ![t] = [pc |-> "sleep", wake |-> clock + SleepTime(kept, clock)]]
            /\ UNCHANGED acquired
       ELSE /\ timestamps' = Append(IF Len(kept) >= Calls THEN Tail(kept) ELSE kept, clock)
            /\ acquired' = Append(acquired, clock)
            /\ UNCHANGED acquiring
    /\ UNCHANGED <<clock, storeVars, watcherVars, collectorVars, execVars, parseVars,
                   sanitizeVars, dbVars, txnVars, restoreVars, retentionVars, backupVars,
                   cancelVars, credVars, hostVars, rangeVars, webhookVars, searchVars,
                   ingestVars, schemaVars>>

\* The sleep of task t is over and the event loop resumes it:
\* self.timestamps.pop(0), then self.timestamps.append(time.time()).
AcquireResume(t) ==
    /\ acquiring # <<>>
    /\ acquiring[t].pc = "sleep"
    /\ clock >= acquiring[t].wake
    /\ timestamps' = Append(Tail(timestamps), clock)
    /\ acquired' = Append(acquired, clock)
    /\ acquiring' = [acquiring EXCEPT ![t] = [pc |-> "out", wake |-> 0]]
    /\ UNCHANGED <<clock, storeVars, watcherVars, collectorVars, execVars, parseVars,
                   sanitizeVars, dbVars, txnVars, restoreVars, retentionVars, backupVars,
                   cancelVars, credVars, hostVars, rangeVars, webhookVars, searchVars,
                   ingestVars, overlapped, schemaVars>>

\* Time passes; a task whose sleep is over is resumed before it passes further.
LimiterTimePasses ==
    /\ acquiring # <<>>
    /\ clock < StartTime + MaxWait
    /\ \A t \in LimiterTasks : acquiring[t].pc = "sleep" => clock < acquiring[t].wake
    /\ clock' = clock + 1
    /\ UNCHANGED <<storeVars, watcherVars, collectorVars, execVars, parseVars,
                   sanitizeVars, dbVars, txnVars, restoreVars, retentionVars, backupVars,
                   cancelVars, credVars, hostVars, rangeVars, webhookVars, searchVars,
                   ingestVars, limiterVars, schemaVars>>

NextLimiter ==
    \/ \E t \in LimiterTasks : AcquireEnter(t)
    \/ \E t \in LimiterTasks : AcquireResume(t)
    \/ LimiterTimePasses

SpecLimiter == InitLimiter /\ [][NextLimiter]_vars

----------------------------------------------------------------------------
(* Claims about the watcher, checked under Spec *)

\* The evaluations whose query ran to completion.
QueryRan(e) == e.outcome \in {"quiet", "fired", "fired_raised"}

Fired(e) == e.outcome \in {"fired", "fired_raised"}

\* t_i of tick t: start-up minus one hour for the first tick, the `now` of the
\* tick before for the others.
WindowLo(t) == IF t = 1 THEN StartTime - Hour ELSE tickLog[t - 1].hi

\* C1: over the ticks with windows (t_i, t_{i+1}], for every rule, a row that is
\* in the store when the tick's query runs and whose timestamp lies in the
\* tick's window is taken into that rule's query in that tick and in no other.
C1_ExactlyOneTick ==
    \A i \in DOMAIN evalLog :
        LET e == evalLog[i]
            mine == {r \in e.present :
                        WindowLo(e.tick) < r.timestamp /\ r.timestamp <= e.hi}
        IN QueryRan(e) =>
             /\ mine \subseteq e.scanned
             /\ \A j \in DOMAIN evalLog :
                  (evalLog[j].rule = e.rule /\ evalLog[j].tick # e.tick)
                      => mine \cap evalLog[j].scanned = {}

\* C2: in one tick the rows counted for a rule are exactly the stored rows with
\* last_check < timestamp <= now that match the rule's event_ids and severity.
C2_HalfOpenWindow ==
    \A i \in DOMAIN evalLog :
        LET e == evalLog[i] IN
        QueryRan(e) =>
            e.selected = {r \in e.present :
                             /\ e.lo < r.timestamp
                             /\ r.timestamp <= e.hi
                             /\ FilterConditions(alert_rules[e.rule], r)}

\* The rules of tick t that _check_alerts handed to _evaluate_rule, in call order.
EvaluatedIn(t) ==
    LET mine == SelectSeq(evalLog, LAMBDA e : e.tick = t)
    IN [i \in DOMAIN mine |-> mine[i].rule]

\* C3: last_check starts at start-up minus one hour and never decreases; it
\* changes only in the last step of a tick, after every rule was evaluated, to
\* the `now` sampled when the tick began; all evaluations of a tick use one
\* lower bound.
C3_LastCheck ==
    /\ [](tickLog = <<>> => last_check = StartTime - Hour)
    /\ [][/\ last_check' >= last_check
          /\ last_check' # last_check =>
                /\ wpc = "rules" /\ wpc' = "sleep"
                /\ EvaluatedIn(tick) = [i \in 1..Len(alert_rules) |-> i]
                /\ last_check' = now
                /\ \A i \in DOMAIN evalLog :
                     evalLog[i].tick = tick => evalLog[i].hi = now]_vars
    /\ [](\A i, j \in DOMAIN evalLog :
             evalLog[i].tick = evalLog[j].tick => evalLog[i].lo = evalLog[j].lo)

\* A second tick is running over two rules after the first one moved last_check
\* to its `now`, and the clock has moved on since.
C3_Witness ==
    /\ Len(tickLog) >= 1 /\ tickLog[1].completed
    /\ last_check = tickLog[1].hi
    /\ last_check > StartTime - Hour
    /\ tick = 2 /\ Len(EvaluatedIn(2)) = 2
    /\ clock > now /\ now > last_check

\* The groups with count >= threshold among the rows of the tick's window
\* (lo, hi] that match the rule.
WindowGroups(e) ==
    LET rule == alert_rules[e.rule]
        rows == {r \in e.present : /\ e.lo < r.timestamp /\ r.timestamp <= e.hi
                                   /\ FilterConditions(rule, r)}
    IN {g \in Grouped(rows) : g.count >= rule.threshold}

\* C4: a rule fires in a tick exactly when some (computer, event_id) group of
\* the rows of the tick's window reaches the threshold; with threshold n, n rows
\* of one group in the window fire it and n - 1 dispatch nothing.
C4_FiresIffThreshold ==
    \A i \in DOMAIN evalLog :
        QueryRan(evalLog[i]) => (Fired(evalLog[i]) <=> WindowGroups(evalLog[i]) # {})

\* The text handed to send_webhook, read back from the payload of any flavor.
MessageOf(p) ==
    IF "content" \in DOMAIN p THEN p.content
    ELSE IF "text" \in DOMAIN p THEN p.text
    ELSE p.message

NotifierCallsFor(t, r, k) ==
    SelectSeq(notifierCalls, LAMBDA c : c.tick = t /\ c.rule = r /\ c.action = k)

\* C5: when a rule fires in a tick, each of its webhook actions that has a url
\* causes exactly one notifier call in that tick, whose text holds one line per
\* triggering group and no other line.
C5_OneCallPerWebhook ==
    \A i \in DOMAIN evalLog :
        LET e == evalLog[i]
            rule == alert_rules[e.rule]
        IN Fired(e) =>
             \A k \in DOMAIN rule.actions :
                 (rule.actions[k].isDict /\ SendsWebhook(rule.actions[k])) =>
                     LET calls == NotifierCallsFor(e.tick, e.rule, k) IN
                     /\ Len(calls) = 1
                     /\ Len(MessageOf(calls[1].payload).lines) = Cardinality(e.results)
                     /\ Range(MessageOf(calls[1].payload).lines)
                            = {FormatLine(g) : g \in e.results}

\* C6: in every tick every rule of alert_rules is evaluated once, in list order,
\* whatever happened to the rules before it.
C6_EveryRuleEvaluated ==
    \A i \in DOMAIN tickLog :
        EvaluatedIn(tickLog[i].tick) = [k \in 1..Len(alert_rules) |-> k]

\* The actions of rule r that tick t dispatched to a handler, in dispatch order.
DispatchedIn(t, r) ==
    LET mine == SelectSeq(dispatchLog,
                          LAMBDA d : d.tick = t /\ d.rule = r /\ d.outcome = "handled")
    IN [i \in DOMAIN mine |-> mine[i].action]

\* The well-formed actions of a rule, by index, in list order.
DispatchableOf(rule) ==
    SortSeq(SeqOfSet({k \in DOMAIN rule.actions : rule.actions[k].isDict}),
            LAMBDA a, b : a < b)

\* C7: within a firing rule the actions are dispatched in list order, and an
\* action that fails does not keep the later actions of the rule from being
\* dispatched.
C7_LaterActionsDispatched ==
    \A i \in DOMAIN evalLog :
        LET e == evalLog[i] IN
        Fired(e) => DispatchedIn(e.tick, e.rule) = DispatchableOf(alert_rules[e.rule])

\* C8: when a firing rule has a remediation action with a script, the
\* remediator is invoked exactly once per distinct triggering computer, with the
\* rule's script.
C8_RemediatorOncePerComputer ==
    \A i \in DOMAIN evalLog :
        LET e == evalLog[i]
            rule == alert_rules[e.rule]
        IN Fired(e) =>
             \A k \in Handled(rule.actions) :
                 RunsRemediation(rule.actions[k]) =>
                     \A c \in {g.computer : g \in e.results} :
                         Cardinality({j \in DOMAIN remediatorCalls :
                                         /\ remediatorCalls[j].tick = e.tick
                                         /\ remediatorCalls[j].rule = e.rule
                                         /\ remediatorCalls[j].action = k
                                         /\ remediatorCalls[j].computer = c
                                         /\ remediatorCalls[j].script = rule.actions[k].script})
                             = 1

----------------------------------------------------------------------------
(* Claims about the collection cycle, checked under SpecCollect *)

\* C9: during a collection cycle at most W = collection.concurrent_hosts host
\* collectors are in flight at any moment, for any number of hosts.
C9_AtMostWInFlight == Cardinality(InFlight) <= ConcurrentHosts

RECURSIVE SumOver(_, _)
SumOver(f, S) == IF S = {} THEN 0
                 ELSE LET x == CHOOSE y \in S : TRUE IN f[x] + SumOver(f, S \ {x})

\* C10: a cycle ends once every host returned or failed, a failed host neither
\* aborts it nor removes other hosts' entries: when collect_all returns, every
\* host was attempted in that cycle (also one that failed in the cycle before)
\* and the store has gained exactly as many rows as the hosts returned events.
C10_FailedHostIsolated ==
    \A i \in DOMAIN cycleLog :
        LET c == cycleLog[i] IN
        c.result = "returned" =>
            /\ c.attempted = HostSet
            /\ c.rows_after - c.rows_before = SumOver(c.events, HostSet)

----------------------------------------------------------------------------
(* Claims about execute_powershell, checked under SpecExec *)

\* C12: a call whose remote execution fails with a transport or timeout failure
\* is attempted up to 3 times with 5 seconds between consecutive attempts and
\* reports failure only after the third failed attempt; a non-zero PowerShell
\* status is not retried.
C12_RetriedThreeTimes ==
    \A i \in DOMAIN execLog :
        LET c == execLog[i] IN
        /\ c.slept = (c.attempts - 1) * RetryDelay
        /\ (c.cause \in {"transport", "connect"} /\ c.result = "None")
              => c.attempts = MaxAttempts
        /\ c.cause = "status" => c.attempts = 1

\* C13: every shell execute_powershell opened is closed and every command it
\* started is cleaned up before it returns, on every exit path.
C13_NoHandleLeftOpen ==
    epc = "idle" => (open_shells = {} /\ open_commands = {})

----------------------------------------------------------------------------
(* Claims about _parse_event_xml, checked under SpecParse *)

\* C14: the parser returns exactly one entry, in input order, for every
\* well-formed fragment of the payload, with source = Provider/@Name or 'Unknown'
\* and message = the Data texts joined by ' | ' or 'No message', cut at 1000.
C14_OneEntryPerEvent ==
    ppc = "parsed" =>
        LET events == SelectSeq(payload, WellFormed) IN
        /\ Len(parsed) = Len(events)
        /\ \A i \in DOMAIN parsed :
              i <= Len(events) =>
                 /\ parsed[i].event_id = IntOf(events[i].event_id)
                 /\ parsed[i].source = IF events[i].provider = NoValue THEN "Unknown"
                                       ELSE events[i].provider
                 /\ parsed[i].message = Message(events[i].data)
                 /\ parsed[i].message.len <= MessageLimit

\* A fragment the parser has to skip: malformed, lacking EventID, Level or
\* TimeCreated, or holding a value that does not parse.
Skippable(f) ==
    \/ f.shape \in {"malformed", "blank", "no_level"}
    \/ f.zone = "bad"
    \/ ~IsInt(f.event_id)

\* C15: the parser returns for every payload; a fragment that is malformed,
\* lacks a required element or has an unparseable value yields no entry and
\* does not change the entries of the other fragments of the payload.
C15_BadFragmentsSkipped ==
    ppc = "parsed" =>
        /\ parsed = _parse_event_xml(SelectSeq(payload, LAMBDA f : ~Skippable(f)),
                                     "10.0.0.1", "Security")
        /\ Len(parsed) <= Len(SelectSeq(payload, LAMBDA f : ~Skippable(f)))
        /\ ((\A k \in DOMAIN payload : Skippable(payload[k])) => parsed = <<>>)

\* A payload whose first fragment raises inside the loop and whose second
\* fragment gave an entry.
C15_Witness ==
    /\ ppc = "parsed"
    /\ Len(payload) = 2
    /\ FragmentOutcome(payload[1]) \in {"ParseError", "ValueError"}
    /\ ~Skippable(payload[2])
    /\ Len(parsed) = 1

\* The enum value the Level text stands for.
LevelName(text) ==
    IF text = "1" THEN "Critical"
    ELSE IF text = "2" THEN "Error"
    ELSE IF text = "3" THEN "Warning"
    ELSE IF text = "4" THEN "Information"
    ELSE IF text = "5" THEN "Verbose"
    ELSE "Unknown"

\* C16: the level of every emitted entry is in the enum and is the name of the
\* fragment's Level text, Unknown for every text other than 1..5; the Level
\* text has no part in whether a fragment is emitted.
C16_LevelMapping ==
    ppc = "parsed" =>
        LET kept == SelectSeq(payload, Emitted) IN
        /\ Len(parsed) = Len(kept)
        /\ \A i \in DOMAIN parsed :
              /\ parsed[i].level \in {"Critical", "Error", "Warning", "Information",
                                      "Verbose", "Unknown"}
              /\ parsed[i].level = LevelName(kept[i].level)
        /\ \A k \in DOMAIN payload :
              \A lvl \in {"1", "4", "0", "9"} :
                  Emitted([payload[k] EXCEPT !.level = lvl]) <=> Emitted(payload[k])

\* An emitted entry whose Level text was none of 1..5, and one whose text was.
C16_Witness ==
    /\ ppc = "parsed"
    /\ Len(parsed) = 2
    /\ parsed[1].level = "Unknown"
    /\ parsed[2].level = "Critical"

\* Minutes the written offset of a SystemTime is ahead of UTC.
OffsetOf(zone) == IF zone = "+01:00" THEN Hour ELSE 0

\* C17: every emitted timestamp is in UTC: a SystemTime with Z or a numeric
\* offset becomes the same instant in UTC, a SystemTime without a zone suffix
\* gives no entry.
C17_TimestampUtc ==
    ppc = "parsed" =>
        /\ \A i \in DOMAIN parsed : parsed[i].tzinfo = "UTC"
        /\ \A k \in DOMAIN payload :
              LET f == payload[k]
                  r == _parse_event_xml(<<f>>, "10.0.0.1", "Security")
              IN /\ f.zone = "" => r = <<>>
                 /\ r # <<>> => r[1].timestamp = f.timestamp - OffsetOf(f.zone)

----------------------------------------------------------------------------
(* Claims about collect_from_host, checked under SpecCollect *)

\* The entries of one channel: what the parser makes of the executor's output,
\* nothing for a channel whose executor gave nothing or raised.
ChannelEntries(h, ch) ==
    IF ch.kind = "output" THEN _parse_event_xml(ch.xml, h, ch.log_name) ELSE <<>>

\* C11: in collect_from_host a failed channel neither discards the entries of
\* the channels before it nor keeps the channels after it from being tried:
\* the channels are tried in configured order, all of them before the host
\* returns, and the batch is the concatenation, in channel order, of the entries
\* of the channels that succeeded.
C11_ChannelsIndependent ==
    \A h \in HostSet :
        task[h].state \in {"running", "done"} =>
            LET chans == task[h].channels IN
            /\ all_entries[h] = Flatten([i \in DOMAIN chans |-> ChannelEntries(h, chans[i])])
            /\ \A i \in DOMAIN chans : chans[i].log_name = log_names[i]
            /\ task[h].state = "done" => Len(chans) = Len(log_names)

\* A host returned after its first channel gave entries and its second failed,
\* and in an earlier cycle after a failed first channel and a second with entries.
C11_Witness ==
    \E h \in HostSet :
        /\ task[h].state = "done"
        /\ Len(task[h].channels) = 2
        /\ task[h].channels[1].kind = "output"
        /\ task[h].channels[2].kind \in {"none", "raise"}
        /\ Len(all_entries[h]) = 1
        /\ cycle = 2
        /\ cycleLog[1].failed = {h}
        /\ Len(cycleLog[1].batch) = 1

----------------------------------------------------------------------------
(* Claims about sanitize_xml, checked under SpecSanitize *)

\* The characters the claim calls forbidden.
Forbidden(c) ==
    \/ c \in 0..8
    \/ c \in {11, 12}
    \/ c \in 14..31
    \/ c \in 127..159

\* Char of XML 1.0.
LegalXmlChar(c) ==
    \/ c \in {9, 10, 13}
    \/ c \in 32..55295
    \/ c \in 57344..65533
    \/ c \in 65536..1114111

LegalAndAllowed(c) == LegalXmlChar(c) /\ ~Forbidden(c)

\* C18: sanitize_xml is idempotent, its result has no forbidden character, and
\* every other legal XML character of the input is kept, in order.
C18_SanitizeIdempotentAndKeeps ==
    /\ spc = "twice" => twice = once
    /\ spc \in {"once", "twice"} =>
          /\ \A i \in DOMAIN once : ~Forbidden(once[i])
          /\ SelectSeq(once, LegalAndAllowed) = SelectSeq(raw, LegalAndAllowed)

----------------------------------------------------------------------------
(* Claims about the store, checked under SpecStore *)

\* C19: every call of insert_logs with a non-empty batch succeeds, adds as many
\* rows as the batch has entries, and raises the largest id by that number.
C19_InsertAddsBatch ==
    \A i \in DOMAIN insertLog :
        LET r == insertLog[i] IN
        /\ r.result = "ok"
        /\ r.rows_after - r.rows_before = r.size
        /\ r.max_after - r.max_before = r.size

\* The ids the calls 1..n of insert_logs assigned.
AssignedUpTo(n) == UNION {insertLog[i].ids : i \in 1..n}

\* C20: no two rows of the table have the same id, every id an insert assigns
\* is greater than every id assigned earlier, and no insert assigns an id that
\* delete_old_logs had freed.
C20_IdsUniqueMonotoneNoReuse ==
    /\ \A i, j \in DOMAIN store : store[i].id = store[j].id => i = j
    /\ \A i \in DOMAIN insertLog :
           /\ \A a \in insertLog[i].ids : \A b \in AssignedUpTo(i - 1) : b < a
           /\ insertLog[i].ids \cap insertLog[i].freed_before = {}

----------------------------------------------------------------------------
(* Claims about insert_logs next to a reader, checked under SpecTxn *)

\* C21: a query that runs while insert_logs writes a batch, or after it, sees
\* none or all of the rows of the batch, all of them once the insert has
\* returned, and an insert that raised has left the table as it was.
C21_InsertAtomic ==
    /\ \A i \in DOMAIN readLog :
           LET r == readLog[i] IN
           /\ r.seen \cap Range(r.batch) \in {{}, Range(r.batch)}
           /\ r.result = "ok" => Range(r.batch) \subseteq r.seen
           /\ r.result = "raised" => r.seen \cap Range(r.batch) = {}
    /\ \A i \in DOMAIN txnLog :
           /\ txnLog[i].result = "raised" => txnLog[i].after = txnLog[i].before
           /\ txnLog[i].result = "ok" =>
                  txnLog[i].after = txnLog[i].before \o txnLog[i].batch

\* One query ran while the INSERT of a batch of two was under way, one after an
\* insert of two rows had returned, and one insert has raised.
C21_Witness ==
    /\ Len(readLog) = 2
    /\ readLog[1].during = "insert"
    /\ Len(readLog[1].batch) = 2
    /\ readLog[2].result = "ok"
    /\ Len(readLog[2].batch) = 2
    /\ \E i \in DOMAIN txnLog : txnLog[i].result = "raised"

----------------------------------------------------------------------------
(* Claims about export and import, checked under SpecStore *)

\* The columns of a row other than id (created_at is not modelled).
Content(row) ==
    [timestamp |-> row.timestamp, computer |-> row.computer, log_name |-> row.log_name,
     event_id |-> row.event_id, level |-> row.level]

\* How many rows of the table have the content c.
CountOf(rows, c) == Cardinality({i \in DOMAIN rows : Content(rows[i]) = c})

Contents(rows) == {Content(rows[i]) : i \in DOMAIN rows}

\* The tables (or files) a and b hold the same rows as multisets, id aside.
SameRows(a, b) ==
    /\ Len(a) = Len(b)
    /\ \A c \in Contents(a) \cup Contents(b) : CountOf(a, c) = CountOf(b, c)

----------------------------------------------------------------------------
(* Claims about delete_old_logs, checked under SpecStore *)

\* C23: after delete_old_logs(d) no row older than now - d days is left, every
\* row not older than that is still there, and the value returned is the
\* number of rows removed.
C23_RetentionExact ==
    \A i \in DOMAIN deleteLog :
        LET r == deleteLog[i]
            Old(row) == row.timestamp < r.cutoff
            NotOld(row) == row.timestamp >= r.cutoff
        IN /\ SelectSeq(r.after, Old) = <<>>
           /\ SelectSeq(r.before, NotOld) = r.after
           /\ r.deleted = Len(SelectSeq(r.before, Old))

\* A call with d = 0 hits a row stamped exactly now - d and an older one; a
\* call with d = 1 hits a row to delete and one to keep.
C23_Witness ==
    /\ \E i \in DOMAIN deleteLog :
           /\ deleteLog[i].days = 0
           /\ deleteLog[i].deleted = 1
           /\ \E k \in DOMAIN deleteLog[i].before :
                  deleteLog[i].before[k].timestamp = deleteLog[i].cutoff
    /\ \E i \in DOMAIN deleteLog :
           /\ deleteLog[i].days = RetentionDays
           /\ deleteLog[i].deleted >= 1
           /\ deleteLog[i].after # <<>>

----------------------------------------------------------------------------
(* Claims about create_backup, checked under SpecBackup *)

\* C24: while create_backup copies the file no thread has a connection open
\* and no insert or query runs; after the backup the store can be used again.
C24_ClosedDuringBackup ==
    /\ bpc = "copying" => \A t \in Threads : conn[t] = "none"
    /\ \A i \in DOMAIN opsLog : opsLog[i].during = "idle"
    /\ (bpc = "idle" /\ backups > 0 /\ Len(opsLog) < MaxOps) =>
           \A t \in Threads : ENABLED UseStore(t)

----------------------------------------------------------------------------
(* Claims about run_continuous, checked under SpecCollectLive *)

\* C25: the cycle after one that completed starts `interval` later, the cycle
\* after one that raised starts 60 seconds later, and no exception ends the
\* loop: after every cycle a further cycle runs.
C25_LoopKeepsRunning ==
    /\ [](\A i \in DOMAIN cycleLog : i > 1 =>
             cycleLog[i].at - cycleLog[i - 1].at =
                 IF cycleLog[i - 1].result = "returned" THEN CollectInterval
                 ELSE CollectorBackoff)
    /\ [](cpc \in {"idle", "gather", "sleep", "backoff"})
    /\ \A n \in 1..(MaxCycles - 1) : (Len(cycleLog) = n) ~> (cycle = n + 1)

\* The second cycle ran to its end one back-off after the first had raised on
\* the insert.
C25_Witness ==
    /\ Len(cycleLog) = 2
    /\ cycleLog[1].result = "raised"
    /\ cycleLog[2].at = cycleLog[1].at + CollectorBackoff
    /\ cycleLog[2].result = "returned"

----------------------------------------------------------------------------
(* Claims about an interrupt of the collector, checked under SpecCancel *)

\* C26: after an interrupt in the middle of a cycle the host collections that
\* were in flight have finished, the entries the cycle collected are in the
\* store, and the command has exited with status 0.
C26_InterruptFlushes ==
    (cpc = "exited" /\ interrupt.at = "gather") =>
        /\ \A h \in interrupt.inflight : task[h].state = "done"
        /\ Len(store) >= interrupt.rows_before + Len(interrupt.collected)
        /\ exit_code = 0

----------------------------------------------------------------------------
(* Claims about get_credentials, checked under SpecCred *)

\* The pairs of the four sources, in the order of the fallback chain.
CredentialChain(src) ==
    << <<src.keyring_username, src.keyring_password>>,
       <<src.env_username, src.env_password>>,
       <<src.config.username, src.config.password>>,
       <<src.default_username, src.default_password>> >>

\* C27: get_credentials returns the first complete pair of the chain secret
\* store, host environment variables, config entry, default environment
\* variables; a source with one value only is passed over; with no complete
\* pair it raises.
C27_FirstCompletePair ==
    kpc = "done" =>
        LET chain == CredentialChain(sources)
            complete == {i \in DOMAIN chain : chain[i][1] # NoValue /\ chain[i][2] # NoValue}
        IN IF complete = {}
           THEN credentials.kind = "raise"
           ELSE /\ credentials.kind = "return"
                /\ credentials.value =
                       [username |-> chain[Min(complete)][1],
                        password |-> chain[Min(complete)][2]]

----------------------------------------------------------------------------
(* Claims about hosts without credentials, checked under SpecHosts *)

\* C28: a target without credentials does not keep the other targets from
\* being initialized and collected, and it is looked at again at the next
\* cycle: every cycle collects from each target that has credentials when the
\* cycle starts.
C28_SkippedHostReconsidered ==
    /\ \A t \in Range(targets) : has_creds[t] => t \in Range(hosts)
    /\ [][cycle' # cycle =>
             \A t \in Range(targets) : has_creds[t] => t \in DOMAIN task']_vars

----------------------------------------------------------------------------
(* Claims about _parse_time_range, checked under SpecRange *)

\* Hours in one unit of the grammar.
HoursPer(unit) ==
    CASE unit = "h" -> 1
      [] unit = "d" -> 24
      [] unit = "w" -> 168
      [] OTHER -> 1

\* C29: _parse_time_range gives n for '<n>h' and for the bare '<n>', 24n for
\* '<n>d' and 168n for '<n>w', whatever the case of the unit and the
\* whitespace around the text.
C29_TimeRangeHours ==
    (hpc = "done" /\ range_of.unit # "outside") =>
        /\ hours.kind = "return"
        /\ hours.value = range_of.n * HoursPer(range_of.unit)

\* '24H' with whitespace around it was parsed.
C29_Witness ==
    /\ hpc = "done"
    /\ range_text = <<" ", "2", "4", "H", "\n">>
    /\ hours.value = 24

----------------------------------------------------------------------------
(* Claims about send_webhook, checked under SpecWebhook *)

\* The keys of the payload the claim gives each flavor.
PayloadKeys(webhook_type) ==
    IF webhook_type \in {"discord", "Discord", "DISCORD"} THEN {"content", "username"}
    ELSE IF webhook_type \in {"slack", "Slack"} THEN {"text", "username", "icon_emoji"}
    ELSE {"message", "source"}

\* C30: send_webhook never raises, posts the payload of the flavor (the generic
\* one for anything that is neither discord nor slack), and returns true
\* exactly when the response status is 200 or 204.
C30_WebhookResult ==
    npc = "done" =>
        /\ sent.kind = "return"
        /\ DOMAIN sent.payload = PayloadKeys(request.webhook_type)
        /\ sent.value = (request.response \in {200, 204})

----------------------------------------------------------------------------
(* Claims about search_logs, checked under SpecSearch *)

\* The look-back, in hours, of the call followed (for a time range that parses).
SearchBack == _parse_time_range(search.time_range).value

\* The rows of the store that are inside the look-back and satisfy every
\* filter that was supplied: an event_id that is a number, a severity and a
\* host that are not the empty string.
SearchMatches ==
    { i \in DOMAIN store :
        /\ store[i].timestamp >= clock - SearchBack * Hour
        /\ search.event_id.present => store[i].event_id = search.event_id.value
        /\ TruthyText(search.severity) =>
               lower(store[i].level) = lower(search.severity.value)
        /\ TruthyText(search.host) => Like(store[i].computer, search.host.value) }

\* C31: search_logs returns only rows inside the look-back that satisfy every
\* supplied filter, all of them up to `limit`, newest first; with an event_id
\* filter supplied (0 included) no row of another event_id is returned.
C31_SearchFilters ==
    (qpc = "done" /\ hits.kind = "return") =>
        /\ \A k \in DOMAIN hits.rows :
             \E i \in SearchMatches : hits.rows[k] = SearchColumns(store[i])
        /\ Len(hits.rows) = Min({search.limit, Cardinality(SearchMatches)})
        /\ \A k \in DOMAIN hits.rows : \A l \in DOMAIN hits.rows :
             k < l => hits.rows[k].timestamp >= hits.rows[l].timestamp

\* The same for the calls whose event_id is not 0.
C31_NonZeroEventId ==
    search.event_id # Given(0) => C31_SearchFilters

----------------------------------------------------------------------------
(* Claims about the batch of a cycle, checked under SpecCollect *)

\* all_results is the batches of all hosts of the cycle, one after the other in
\* some order of the hosts.
IsAggregate ==
    \E o \in Orderings(HostSet) :
        all_results = Flatten([i \in DOMAIN o |-> all_entries[o[i]]])

\* C32: a cycle hands its entries to the store in one insert, made after every
\* host collector of the cycle has finished: the store changes only in the step
\* that ends collect_all, by the aggregate of all hosts' batches; a cycle ends
\* once, and one that collected nothing leaves the store as it was.
C32_SingleInsert ==
    [][ /\ store' # store =>
             /\ \A h \in HostSet : task[h].state = "done"
             /\ cycleLog' # cycleLog
             /\ IsAggregate
             /\ store' = store \o InsertedRows(all_results, logs_id_seq)
        /\ cycleLog' # cycleLog =>
             /\ Len(cycleLog') = cycle
             /\ all_results = <<>> => store' = store
      ]_vars

\* Three hosts finished a cycle, two of them with entries, and the store took
\* the batch of both at once; the cycle before collected nothing.
C32_Witness ==
    /\ Len(cycleLog) = 2
    /\ cycleLog[1].batch = <<>>
    /\ cycleLog[1].rows_after = 0
    /\ Cardinality(HostSet) = 3
    /\ Cardinality({h \in HostSet : all_entries[h] # <<>>}) = 2
    /\ cycleLog[2].result = "returned"
    /\ Len(cycleLog[2].batch) >= 2
    /\ Len(store) = Len(cycleLog[2].batch)

\* The entries of host h in a batch, in batch order.
RunOf(batch, h) == SelectSeq(batch, LAMBDA e : e.computer = h)

\* The rows the last insert wrote, in batch order.
LastInserted ==
    LET rec == cycleLog[Len(cycleLog)] IN SubSeq(store, rec.rows_before + 1, rec.rows_after)

\* C33: in the batch a cycle inserted the entries of one host are contiguous,
\* no entry of another host stands inside the run of a host, the run of a host
\* is what the parser emitted for its channels in configured order, each
\* payload in its own order, and the ids of the rows increase with the position
\* in the batch.
C33_BatchOrder ==
    (cpc = "sleep" /\ cycleLog[Len(cycleLog)].result = "returned") =>
        LET batch == cycleLog[Len(cycleLog)].batch
            rows == LastInserted
        IN
        /\ \A i, j, k \in DOMAIN batch :
             (i < j /\ j < k /\ batch[i].computer = batch[k].computer) =>
                 batch[j].computer = batch[i].computer
        /\ \A h \in HostSet :
             RunOf(batch, h) =
                 Flatten([c \in DOMAIN task[h].channels |->
                             ChannelEntries(h, task[h].channels[c])])
        /\ \A h \in HostSet : \A c \in DOMAIN task[h].channels :
             task[h].channels[c].log_name = log_names[c]
        /\ Len(rows) = Len(batch)
        /\ \A k \in DOMAIN batch : rows[k] = LogRow(rows[k].id, batch[k])
        /\ \A k, l \in DOMAIN rows : k < l => rows[k].id < rows[l].id

\* Two of three hosts gave a payload of two events, the later event first, and
\* the four entries were inserted in one batch.
C33_Witness ==
    /\ cpc = "sleep"
    /\ Cardinality(HostSet) = 3
    /\ cycleLog[Len(cycleLog)].result = "returned"
    /\ Len(cycleLog[Len(cycleLog)].batch) = 4
    /\ \E h \in HostSet :
         /\ Len(RunOf(cycleLog[Len(cycleLog)].batch, h)) = 2
         /\ RunOf(cycleLog[Len(cycleLog)].batch, h)[1].timestamp >
                RunOf(cycleLog[Len(cycleLog)].batch, h)[2].timestamp
    /\ Len(LastInserted) = 4

----------------------------------------------------------------------------
(* Claims about duplicated and late rows, checked under Spec *)

\* The distinct source events among the rows of one (computer, event_id) group.
DistinctEvents(rows, c, e) ==
    Cardinality({Content(r) : r \in {x \in rows : x.computer = c /\ x.event_id = e}})

\* C34: a rule does not fire in a tick in which every (computer, event_id)
\* group of the rows its query selected holds fewer distinct source events than
\* the threshold, the same event ingested several times counting once.
C34_DuplicatesTolerated ==
    \A i \in DOMAIN evalLog :
        Fired(evalLog[i]) =>
            \E g \in evalLog[i].results :
                DistinctEvents(evalLog[i].selected, g.computer, g.event_id) >=
                    alert_rules[evalLog[i].rule].threshold

\* C35: a row inserted when last_check was already at or past its timestamp is
\* selected by no query of any rule afterwards. Here for the rows that came
\* after last_check had advanced from its start-up value.
C35_LateRowNeverCounted ==
    \A i \in DOMAIN evalLog : \A r \in evalLog[i].selected :
        \A l \in lateRows :
            (l.id = r.id /\ l.last_check > StartTime - Hour) => FALSE

\* The same for the rows whose timestamp was before last_check, not at it.
C35_OlderRowNeverCounted ==
    \A i \in DOMAIN evalLog : \A r \in evalLog[i].selected :
        \A l \in lateRows : l.id = r.id => r.timestamp = l.last_check

----------------------------------------------------------------------------
(* Claims about the loop of start(), checked under SpecLive *)

\* C36: the watcher loop never stops on an exception: it is always inside the
\* loop, after a tick that completed it sleeps check_interval and after a tick
\* that raised it sleeps 60 seconds, and from either sleep the next tick starts
\* (as long as the explored ticks and minutes allow one more).
C36_LoopNeverStops ==
    /\ [](wpc \in {"check", "rules", "sleep", "backoff"})
    /\ [](wpc \in {"sleep", "backoff"} =>
             (wpc = "sleep") = tickLog[Len(tickLog)].completed)
    /\ [][ /\ (wpc = "sleep" /\ wpc' # wpc) =>
                (wpc' = "check" /\ clock' = clock + CheckInterval)
           /\ (wpc = "backoff" /\ wpc' # wpc) =>
                (wpc' = "check" /\ clock' = clock + Backoff) ]_vars
    /\ \A n \in 1..(MaxTicks - 1) :
         (wpc \in {"sleep", "backoff"} /\ tick = n /\ clock < MaxClock) ~> (tick = n + 1)

\* The first tick raised, the loop backed off, and the second tick is under way.
C36_Witness ==
    /\ tick = 2
    /\ wpc = "rules"
    /\ ~tickLog[1].completed

----------------------------------------------------------------------------
(* Claims about RateLimiter, checked under SpecLimiter *)

\* The acquire() calls that completed in the window [w, w + period).
CompletedIn(w) == {i \in DOMAIN acquired : w <= acquired[i] /\ acquired[i] < w + Period}

\* C37: in any window of length `period` at most `calls` acquire() calls
\* complete, also with several tasks suspended in the sleep at once, and the
\* list of timestamps never holds more than `calls` entries.
C37_RateBound ==
    /\ \A w \in StartTime..(StartTime + MaxWait) : Cardinality(CompletedIn(w)) <= Calls
    /\ Len(timestamps) <= Calls

\* The same for a limiter no task entered while another was suspended in it.
C37_RateBoundAlone ==
    ~overlapped => C37_RateBound

----------------------------------------------------------------------------
(* Claims about the schema and about imported ids, checked under SpecStore *)

\* C38: running initialize_schema again on an existing store leaves the rows
\* and the sequence as they are, and an insert_logs call made afterwards draws
\* ids greater than every id in the table.
C38_SchemaIdempotent ==
    [][ /\ schema_runs' # schema_runs => (store' = store /\ logs_id_seq' = logs_id_seq)
        /\ (schema_runs >= 1 /\ insertLog' # insertLog) => logs_id_seq > MaxId(store)
      ]_vars

\* The first half alone: the rows and the sequence are left as they are.
C38_RowsAndSequenceKept ==
    [][schema_runs' # schema_runs => (store' = store /\ logs_id_seq' = logs_id_seq)]_vars

\* The whole of C38 on a store nothing was imported into.
C38_WithoutImport ==
    [][ /\ schema_runs' # schema_runs => (store' = store /\ logs_id_seq' = logs_id_seq)
        /\ (schema_runs >= 1 /\ ~imported /\ insertLog' # insertLog) =>
               logs_id_seq > MaxId(store)
      ]_vars

\* C39: once import_from_parquet has loaded rows, every later insert_logs call
\* succeeds and the ids it assigns are greater than every id in the table.
C39_InsertAfterImport ==
    [][ (imported /\ insertLog' # insertLog) =>
            LET last == insertLog'[Len(insertLog')] IN
            /\ last.result = "ok"
            /\ \A id \in last.ids : id > MaxId(store)
      ]_vars

----------------------------------------------------------------------------
(* Claims about what execute_powershell gives its caller, checked under SpecExec *)

\* C40: no exception leaves execute_powershell: every call returns, the output
\* exactly when a run of the script (by the protocol, or by the session
\* fallback) ended with status 0, and None when connect failed, when the status
\* was not 0, and when the protocol path raised and the fallback raised or
\* ended with a status other than 0.
C40_NoExceptionEscapes ==
    \A i \in DOMAIN execLog :
        LET c == execLog[i] IN
        /\ c.result \in {"output", "None"}
        /\ (c.result = "output") = (c.ran = "zero")
        /\ c.cause = "connect" => (c.ran = NoValue /\ c.result = "None")
        /\ c.cause = "status" => (c.ran = "nonzero" /\ c.result = "None")
        /\ (c.cause = "transport" /\ c.ran \in {"nonzero", "raised"}) => c.result = "None"

\* Three calls ended: one on a failed connect, one with the protocol path and
\* the fallback both raising, one with the fallback giving the output.
C40_Witness ==
    /\ \E i \in DOMAIN execLog : execLog[i].cause = "connect" /\ execLog[i].result = "None"
    /\ \E i \in DOMAIN execLog :
         /\ execLog[i].cause = "transport"
         /\ execLog[i].ran = "raised"
         /\ execLog[i].result = "None"
    /\ \E i \in DOMAIN execLog :
         /\ execLog[i].cause = "transport"
         /\ execLog[i].ran = "zero"
         /\ execLog[i].result = "output"

====
